---- MODULE Spec2Model ----
(***************************************************************************)
(* lento: the QueryStream of lib/query-stream.js (one statement driven     *)
(* through the Presto statement protocol) together with its consumer, its  *)
(* timers and the coordinator answering its requests.                      *)
(*                                                                         *)
(* The stream object is the record qs; its methods are operators from a    *)
(* world (stream, timers, requests in flight, observed events) to the      *)
(* world after the call, so that a handler and every call it makes is one  *)
(* step.                                                                   *)
(***************************************************************************)
EXTENDS Integers, Sequences, FiniteSets, TLC

\* ---------------------------------------------------------------- bounds
MaxRequests == 3      \* statement requests (POST/GET) sent for one statement
MaxRows == 2          \* rows the coordinator returns over the whole statement
MaxRetriesOpt == 1    \* largest value of the maxRetries option

\* ------------------------------------------------------------- constants
RETRY_ERROR_CODES ==
  {"SERVER_STARTING_UP", "HIVE_METASTORE_ERROR", "TOO_MANY_REQUESTS_FAILED",
   "PAGE_TRANSPORT_TIMEOUT"}

\* Codes of errors handed to the stream's callback by client.request: the
\* Presto codes above, a Presto error outside that set and a transport error.
ErrorCodes == RETRY_ERROR_CODES \cup {"EXCEEDED_TIME_LIMIT", "ECONNREFUSED"}

StatementPath == 0    \* '/v1/statement'
NoPath == -1          \* _prevPath === undefined, result.nextUri absent
NoId == 0             \* _queryId === undefined, result.id absent
NoColumns == 0        \* _columns === undefined, result.columns absent
Sql == "select 1"
NoBody == ""
NoError == ""
UserError == "user error"
CancelError == "cancel failed"
NoStats == ""         \* result.stats absent; else its state
QueryPathBase == 100
QueryPath(id) == QueryPathBase + id   \* `/v1/query/${queryId}`

ClientHost == "localhost"   \* client.hostname
OtherHost == "other-host"
NoHost == ""                \* opts.hostname is not set
ClientPort == 8080          \* client.port
OtherPort == 8081
PortAbsent == -1            \* 'port' in opts is false
PortUnset == 0              \* opts.port === undefined; a URL without a port
NoProtocol == ""            \* opts.protocol is not set
Protocols == {"http:", "https:"}
NoHeaders == ""             \* opts.headers before client.request
Headers == "headers"        \* the headers client.request computes

\* A nextUri or a location: absent, a string new URL() rejects, or a URL.
NoUri ==
  [kind |-> "none", protocol |-> NoProtocol, hostname |-> NoHost,
   port |-> PortUnset, path |-> NoPath]
InvalidUri ==
  [kind |-> "invalid", protocol |-> NoProtocol, hostname |-> NoHost,
   port |-> PortUnset, path |-> NoPath]
Url(protocol, hostname, port, path) ==
  [kind |-> "url", protocol |-> protocol, hostname |-> hostname,
   port |-> port, path |-> path]

MaxPage == MaxRows    \* rows in one response
PageSizes == {0, 1}

VARIABLES
  cfg,        \* options: paging, pageSize, maxRetries, protocol
  qs,         \* the QueryStream object
  timers,     \* pending timers: "poll" (_timeout), "retry" (_retryTimeout)
  net,        \* requests handed to client.request and not yet called back
  cb,         \* the callback given to _destroy: [st, err]
  log,        \* observed events, dispatched requests, received responses
  pushed,     \* chunks given to push(), in order
  recvRows,   \* rows of all results called back, in order
  atDestroy,  \* the stream as _destroy found it
  destroys,   \* number of destroy() calls so far: 0, 1, or 2 for more
  wire,       \* the HTTP requests _makeRequest dispatched, in order
  lastUri,    \* the nextUri of the last result called back
  client,     \* the Client object: headers, maxRetries, _session
  statements, \* the statements run on the client with query, set and reset
  seen        \* what was observed of the client's requests and responses

vars ==
  <<cfg, qs, timers, net, cb, log, pushed, recvRows, atDestroy, destroys,
    wire, lastUri, client, statements, seen>>

\* ------------------------------------------------------------------ world
World ==
  [cfg |-> cfg, qs |-> qs, timers |-> timers, net |-> net, cb |-> cb,
   log |-> log, pushed |-> pushed, recvRows |-> recvRows,
   atDestroy |-> atDestroy, destroys |-> destroys, wire |-> wire,
   lastUri |-> lastUri]

Becomes(w) ==
  /\ cfg' = w.cfg
  /\ qs' = w.qs
  /\ timers' = w.timers
  /\ net' = w.net
  /\ cb' = w.cb
  /\ log' = w.log
  /\ pushed' = w.pushed
  /\ recvRows' = w.recvRows
  /\ atDestroy' = w.atDestroy
  /\ destroys' = w.destroys
  /\ wire' = w.wire
  /\ lastUri' = w.lastUri
  /\ UNCHANGED <<client, statements, seen>>

Ev(e, v, n, x) == [e |-> e, v |-> v, n |-> n, x |-> x]

emit(w, e, v, n) == [w EXCEPT !.log = Append(@, Ev(e, v, n, ""))]

Count(e) == Cardinality({i \in 1..Len(log) : log[i].e = e})
Sends == {i \in 1..Len(log) : log[i].e = "send"}
StatementSends == {i \in Sends : log[i].v # "DELETE"}
Deletes == {i \in Sends : log[i].v = "DELETE"}
Idx(e) == {i \in 1..Len(log) : log[i].e = e}

RECURSIVE Flatten(_)
Flatten(chunks) ==
  IF chunks = <<>> THEN <<>> ELSE Head(chunks) \o Flatten(Tail(chunks))

NSends(w) == Cardinality({i \in 1..Len(w.log) : w.log[i].e = "send"})

\* ------------------------------------------------------------ QueryStream
InitialRequest ==
  [path |-> StatementPath, method |-> "POST", body |-> Sql,
   expectStatusCode |-> 200, hostname |-> NoHost, port |-> PortAbsent,
   protocol |-> NoProtocol, headers |-> NoHeaders]

\* _reset that keeps the id of the failed attempt.
reset_keepQueryId(s, reading) ==
  [s EXCEPT !.timeout = "", !.retryTimeout = "",
            !.columns = NoColumns, !.prevPath = NoPath, !.buffer = <<>>,
            !.bufferIndex = 0, !.inflight = FALSE,
            !.upstreamFinished = FALSE, !.received = FALSE,
            !.errored = FALSE, !.reading = reading,
            !.lastUpstreamState = NoStats,
            !.requestOptions = InitialRequest]

\* _reset(reading); new QueryStream() is Construct below.
reset(s, reading) ==
  [s EXCEPT !.timeout = "", !.retryTimeout = "", !.queryId = NoId,
            !.columns = NoColumns, !.prevPath = NoPath, !.buffer = <<>>,
            !.bufferIndex = 0, !.inflight = FALSE,
            !.upstreamFinished = FALSE, !.received = FALSE,
            !.errored = FALSE, !.reading = reading,
            !.lastUpstreamState = NoStats,
            !.requestOptions = InitialRequest]

Construct ==
  reset([timeout |-> "", retryTimeout |-> "", queryId |-> NoId,
         columns |-> NoColumns, prevPath |-> NoPath, buffer |-> <<>>,
         bufferIndex |-> 0, inflight |-> FALSE, upstreamFinished |-> FALSE,
         received |-> FALSE, errored |-> FALSE, reading |-> FALSE,
         lastUpstreamState |-> NoStats,
         requestOptions |-> InitialRequest,
         backoff |-> 0,        \* this._backoff.attempts
         land |-> "_land",     \* what this._land is bound to
         destroyed |-> FALSE,  \* Readable: stream.destroyed
         ended |-> FALSE],     \* Readable: push(null) was called
        FALSE)

\* client.request fills in the options that are not set (it mutates opts).
prepare(options, protocol) ==
  [options EXCEPT !.hostname = IF @ = NoHost THEN ClientHost ELSE @,
                  !.port = IF @ = PortAbsent THEN ClientPort ELSE @,
                  !.protocol = IF @ = NoProtocol THEN protocol ELSE @,
                  !.headers = Headers]

\* One HTTP request of r as _makeRequest dispatches it (the private
\* '_request' event), with backoff.attempts at that time. The wire also keeps
\* what came back (status, code, location) and what was called back.
Dispatch(r, via) ==
  [seq |-> r.seq, via |-> via, attempts |-> r.attempts,
   method |-> r.opts.method, protocol |-> r.opts.protocol,
   hostname |-> r.opts.hostname, port |-> r.opts.port, path |-> r.opts.path,
   body |-> r.opts.body, headers |-> r.opts.headers,
   status |-> 0, code |-> NoError, location |-> NoUri]

\* _makeRequest(opts, backoff, callback): the request r is in net until the
\* transport calls back with its final outcome.
_makeRequest(w, r, via) ==
  [w EXCEPT !.net = @ \cup {[r EXCEPT !.phase = "wire"]},
            !.wire = Append(@, Dispatch(r, via))]

\* client.request(options, callback): _makeRequest with a new Backoff.
request(w, options) ==
  LET opts == prepare(options, w.cfg.protocol)
      r == [seq |-> NSends(w) + 1, attempts |-> 0, phase |-> "wire",
            opts |-> opts]
  IN _makeRequest([w EXCEPT !.log = Append(@, Ev("send", opts.method, opts.path,
                                                 opts.body))],
                  r, "request")

\* The _destroy callback that forgets a failed cancelation when the stream was
\* destroyed with an error.
callback_dropCancelationErr(w, err, cancelationErr) ==
  LET first == IF err # NoError THEN err ELSE cancelationErr
      w1 == IF first # NoError
            THEN [w EXCEPT !.log = Append(@, Ev("error", first, 0, NoError))]
            ELSE w
  IN [w1 EXCEPT !.log = Append(@, Ev("close", "", 0, "")),
                !.cb = [st |-> "called", err |-> first]]

\* The callback of _destroy as _cancel calls it: an AggregateError of err and
\* cancelationErr when both exist (the event's v and x), else the one that
\* exists; the stream emits 'error' when given one, then 'close'.
callback(w, err, cancelationErr) ==
  LET first == IF err # NoError THEN err ELSE cancelationErr
      second == IF err # NoError THEN cancelationErr ELSE NoError
      w1 == IF first # NoError
            THEN [w EXCEPT !.log = Append(@, Ev("error", first, 0, second))]
            ELSE w
  IN [w1 EXCEPT !.log = Append(@, Ev("close", "", 0, "")),
                !.cb = [st |-> "called", err |-> first]]

\* _cancel that emits `cancel` after the DELETE is dispatched.
_cancel_late(w, queryId, err) ==
  LET w1 == [w EXCEPT !.qs.land = "noop"]
      req == [method |-> "DELETE", path |-> QueryPath(queryId),
              body |-> NoBody, expectStatusCode |-> 204, hostname |-> NoHost,
              port |-> PortAbsent, protocol |-> NoProtocol,
              headers |-> NoHeaders]
  IN IF queryId = NoId
     THEN [w1 EXCEPT !.cb = [st |-> "tick", err |-> err]]
     ELSE LET w2 == emit(w1, "request", "DELETE", req.path)
              w3 == request(w2, req)
              w4 == emit(w3, "cancel", "", 0)
          IN [w4 EXCEPT !.cb = [st |-> "delete", err |-> err]]

\* _cancel that leaves _land in place.
_cancel_keepLand(w, queryId, err) ==
  LET req == [method |-> "DELETE", path |-> QueryPath(queryId),
              body |-> NoBody, expectStatusCode |-> 204, hostname |-> NoHost,
              port |-> PortAbsent, protocol |-> NoProtocol,
              headers |-> NoHeaders]
  IN IF queryId = NoId
     THEN [w EXCEPT !.cb = [st |-> "tick", err |-> err]]
     ELSE LET w2 == emit(w, "request", "DELETE", req.path)
              w3 == emit(w2, "cancel", "", 0)
              w4 == request(w3, req)
          IN [w4 EXCEPT !.cb = [st |-> "delete", err |-> err]]

_cancel(w, queryId, err) ==
  LET w1 == [w EXCEPT !.qs.land = "noop"]
      req == [method |-> "DELETE", path |-> QueryPath(queryId),
              body |-> NoBody, expectStatusCode |-> 204, hostname |-> NoHost,
              port |-> PortAbsent, protocol |-> NoProtocol,
              headers |-> NoHeaders]
  IN IF queryId = NoId
     THEN [w1 EXCEPT !.cb = [st |-> "tick", err |-> err]]
     ELSE LET w2 == emit(w1, "request", "DELETE", req.path)
              w3 == emit(w2, "cancel", "", 0)
              w4 == request(w3, req)
          IN [w4 EXCEPT !.cb = [st |-> "delete", err |-> err]]

\* destroyCase that does not wait for the request in flight.
destroyCase_noWait(s) ==
  IF s.upstreamFinished \/ s.errored THEN "skip"
  ELSE IF s.queryId # NoId THEN "cancel"
  ELSE "close"

\* destroyCase that cancels a known query although it finished upstream.
destroyCase_cancelFinished(s) ==
  IF s.errored THEN "skip"
  ELSE IF s.queryId # NoId THEN "cancel"
  ELSE IF s.inflight THEN "wait"
  ELSE "close"

\* Which branch _destroy takes.
destroyCase(s) ==
  IF s.upstreamFinished \/ s.errored THEN "skip"
  ELSE IF s.queryId # NoId THEN "cancel"
  ELSE IF s.inflight THEN "wait"
  ELSE "close"

\* _destroy that clears the retry timer only.
_destroy_keepTimeout(w, err) ==
  LET s == w.qs
      w1 == [w EXCEPT !.timers = @ \ {s.retryTimeout},
                      !.atDestroy = [called |-> TRUE, case |-> destroyCase(s),
                                     queryId |-> s.queryId, inflight |-> s.inflight,
                                     upstreamFinished |-> s.upstreamFinished,
                                     errored |-> s.errored, timers |-> w.timers,
                                     sends |-> NSends(w), err |-> err],
                      !.log = Append(@, Ev("destroy", err, 0, ""))]
  IN CASE destroyCase(s) = "skip" -> _cancel(w1, NoId, err)
       [] destroyCase(s) = "cancel" -> _cancel(w1, s.queryId, err)
       [] destroyCase(s) = "wait" ->
            [w1 EXCEPT !.qs.land = "wait", !.cb = [st |-> "wait", err |-> err]]
       [] OTHER -> _cancel(w1, NoId, err)

\* _destroy that clears the poll timer only.
_destroy_keepRetryTimeout(w, err) ==
  LET s == w.qs
      w1 == [w EXCEPT !.timers = @ \ {s.timeout},
                      !.atDestroy = [called |-> TRUE, case |-> destroyCase(s),
                                     queryId |-> s.queryId, inflight |-> s.inflight,
                                     upstreamFinished |-> s.upstreamFinished,
                                     errored |-> s.errored, timers |-> w.timers,
                                     sends |-> NSends(w), err |-> err],
                      !.log = Append(@, Ev("destroy", err, 0, ""))]
  IN CASE destroyCase(s) = "skip" -> _cancel(w1, NoId, err)
       [] destroyCase(s) = "cancel" -> _cancel(w1, s.queryId, err)
       [] destroyCase(s) = "wait" ->
            [w1 EXCEPT !.qs.land = "wait", !.cb = [st |-> "wait", err |-> err]]
       [] OTHER -> _cancel(w1, NoId, err)

_destroy(w, err) ==
  LET s == w.qs
      w1 == [w EXCEPT !.timers = @ \ {s.timeout, s.retryTimeout},
                      !.atDestroy = [called |-> TRUE, case |-> destroyCase(s),
                                     queryId |-> s.queryId, inflight |-> s.inflight,
                                     upstreamFinished |-> s.upstreamFinished,
                                     errored |-> s.errored, timers |-> w.timers,
                                     sends |-> NSends(w), err |-> err],
                      !.log = Append(@, Ev("destroy", err, 0, ""))]
  IN CASE destroyCase(s) = "skip" -> _cancel(w1, NoId, err)
       [] destroyCase(s) = "cancel" -> _cancel(w1, s.queryId, err)
       [] destroyCase(s) = "wait" ->
            [w1 EXCEPT !.qs.land = "wait", !.cb = [st |-> "wait", err |-> err]]
       [] OTHER -> _cancel(w1, NoId, err)

\* destroy that runs _destroy on every call.
destroy_reentrant(w, err) ==
  _destroy([w EXCEPT !.destroys = IF @ < 2 THEN @ + 1 ELSE @,
                     !.qs.destroyed = TRUE], err)

\* Readable.destroy(err): _destroy runs on the first call only.
destroy(w, err) ==
  LET w1 == [w EXCEPT !.destroys = IF @ < 2 THEN @ + 1 ELSE @]
  IN IF w.qs.destroyed THEN w1
     ELSE _destroy([w1 EXCEPT !.qs.destroyed = TRUE], err)

_takeoff(w) ==
  LET w1 == [w EXCEPT !.qs.inflight = TRUE]
      w2 == emit(w1, "request", w.qs.requestOptions.method, w.qs.requestOptions.path)
      w3 == request(w2, w.qs.requestOptions)
  IN [w3 EXCEPT !.qs.requestOptions = prepare(@, w.cfg.protocol)]

\* _taxi that never waits for pollInterval.
_taxi_eager(w) == _takeoff(w)

\* If the path did not change, wait pollInterval for a server-side state
\* change; else request at once.
_taxi(w) ==
  IF w.qs.prevPath = w.qs.requestOptions.path
  THEN [w EXCEPT !.qs.timeout = "poll", !.timers = @ \cup {"poll"}]
  ELSE _takeoff(w)

\* takePage that forgets the surplus of a page larger than pageSize.
takePage_dropSurplus(s, pageSize) ==
  IF pageSize <= 0 \/ Len(s.buffer) <= pageSize
  THEN [chunk |-> s.buffer, qs |-> [s EXCEPT !.buffer = <<>>]]
  ELSE [chunk |-> SubSeq(s.buffer, 1, pageSize), qs |-> [s EXCEPT !.buffer = <<>>]]

\* takePage that never slices a page.
takePage_whole(s, pageSize) ==
  [chunk |-> s.buffer, qs |-> [s EXCEPT !.buffer = <<>>]]

\* The chunk the loop of _read pushes next, and the stream once it is taken.
\* A row is pushed as the chunk <<row>>.
takePage(s, pageSize) ==
  IF pageSize <= 0 \/ Len(s.buffer) <= pageSize
  THEN [chunk |-> s.buffer, qs |-> [s EXCEPT !.buffer = <<>>]]
  ELSE [chunk |-> SubSeq(s.buffer, 1, pageSize),
        qs |-> [s EXCEPT !.buffer = SubSeq(@, pageSize + 1, Len(@))]]

takeRow(s) ==
  [chunk |-> <<s.buffer[s.bufferIndex + 1]>>,
   qs |-> [s EXCEPT !.bufferIndex = @ + 1]]

hasChunk(s, paging) ==
  IF paging THEN Len(s.buffer) > 0 ELSE s.bufferIndex < Len(s.buffer)

\* this.push(chunk): the chunk is handed to the consumer, whose 'data' handler
\* may destroy the stream before push returns (ch.destroyAt = k for the k-th
\* push of this call of _read).
push(w, chunk, k, ch) ==
  LET w1 == [w EXCEPT !.pushed = Append(@, chunk),
                      !.log = Append(@, Ev("data", "", Len(chunk), ""))]
  IN IF ch.destroyAt = k THEN destroy(w1, NoError) ELSE w1

\* The loop of _read; ch.stop = k when the k-th push returns false.
RECURSIVE readLoop(_, _, _)
readLoop(w, k, ch) ==
  IF hasChunk(w.qs, w.cfg.paging)
  THEN LET t == IF w.cfg.paging THEN takePage(w.qs, w.cfg.pageSize)
                ELSE takeRow(w.qs)
           w1 == push([w EXCEPT !.qs = t.qs], t.chunk, k, ch)
       IN IF ch.stop = k THEN [w |-> w1, full |-> TRUE]
          ELSE readLoop(w1, k + 1, ch)
  ELSE [w |-> w, full |-> FALSE]

\* afterDrain that asks for the next result of a finished query.
afterDrain_ignoreFinished(w) ==
  _taxi([w EXCEPT !.qs.buffer = <<>>, !.qs.bufferIndex = 0])

\* What _read does once the buffer is drained.
afterDrain(w) ==
  IF w.qs.upstreamFinished
  THEN emit([w EXCEPT !.qs.ended = TRUE], "end", "", 0)
  ELSE _taxi([w EXCEPT !.qs.buffer = <<>>, !.qs.bufferIndex = 0])

\* _read that goes on to the next request when a push returns false.
_read_eager(w, ch) ==
  IF w.qs.destroyed \/ w.qs.reading THEN w
  ELSE LET r == readLoop([w EXCEPT !.qs.reading = TRUE], 1, ch)
       IN IF r.full THEN _taxi([r.w EXCEPT !.qs.reading = FALSE])
          ELSE afterDrain(r.w)

\* _read without the guard on a destroyed stream.
_read_unguarded(w, ch) ==
  IF w.qs.reading THEN w
  ELSE LET r == readLoop([w EXCEPT !.qs.reading = TRUE], 1, ch)
       IN IF r.full THEN [r.w EXCEPT !.qs.reading = FALSE]
          ELSE afterDrain(r.w)

\* _read without the guard on a call of _read that has not returned.
_read_reentrant(w, ch) ==
  IF w.qs.destroyed THEN w
  ELSE LET r == readLoop([w EXCEPT !.qs.reading = TRUE], 1, ch)
       IN IF r.full THEN [r.w EXCEPT !.qs.reading = FALSE]
          ELSE afterDrain(r.w)

_read(w, ch) ==
  IF w.qs.destroyed \/ w.qs.reading THEN w
  ELSE LET r == readLoop([w EXCEPT !.qs.reading = TRUE], 1, ch)
       IN IF r.full THEN [r.w EXCEPT !.qs.reading = FALSE]
          ELSE afterDrain(r.w)

\* canRetry without the guard on received data.
canRetry_ignoreReceived(s, code, maxRetries) ==
  /\ code \in RETRY_ERROR_CODES
  /\ s.backoff < maxRetries

\* canRetry that allows one restart more than maxRetries.
canRetry_inclusive(s, code, maxRetries) ==
  /\ ~s.received
  /\ code \in RETRY_ERROR_CODES
  /\ s.backoff <= maxRetries

\* canRetry that does not look at the code of the error.
canRetry_anyCode(s, code, maxRetries) ==
  /\ ~s.received
  /\ s.backoff < maxRetries

\* canRetry that does not look at the attempts of the stream's backoff.
canRetry_unbounded(s, code, maxRetries) ==
  /\ ~s.received
  /\ code \in RETRY_ERROR_CODES

\* The condition of a query-level retry in _land.
canRetry(s, code, maxRetries) ==
  /\ ~s.received
  /\ code \in RETRY_ERROR_CODES
  /\ s.backoff < maxRetries

\* landError that does not mark the stream as errored.
landError_unmarked(w, code) ==
  IF canRetry(w.qs, code, w.cfg.maxRetries)
  THEN [w EXCEPT !.qs = [reset(@, TRUE) EXCEPT !.backoff = @ + 1,
                                               !.retryTimeout = "retry"],
                 !.timers = @ \cup {"retry"},
                 !.log = Append(@, Ev("restart", "", 0, ""))]
  ELSE destroy(w, code)

\* landError whose restarts do not count as attempts of the stream's backoff.
landError_uncounted(w, code) ==
  IF canRetry(w.qs, code, w.cfg.maxRetries)
  THEN [w EXCEPT !.qs = [reset(@, TRUE) EXCEPT !.retryTimeout = "retry"],
                 !.timers = @ \cup {"retry"},
                 !.log = Append(@, Ev("restart", "", 0, ""))]
  ELSE destroy([w EXCEPT !.qs.errored = TRUE], code)

\* _land(err): retry the query, or fail the stream. backoff.duration()
\* counts the attempt.
landError(w, code) ==
  IF canRetry(w.qs, code, w.cfg.maxRetries)
  THEN [w EXCEPT !.qs = [reset(@, TRUE) EXCEPT !.backoff = @ + 1,
                                               !.retryTimeout = "retry"],
                 !.timers = @ \cup {"retry"},
                 !.log = Append(@, Ev("restart", "", 0, ""))]
  ELSE destroy([w EXCEPT !.qs.errored = TRUE], code)

\* adoptId that takes the id of every result.
adoptId_always(w, result) ==
  IF result.id # NoId
  THEN emit([w EXCEPT !.qs.queryId = result.id], "id", "", result.id)
  ELSE w

\* _land(null, result): adopt id and columns, buffer the page, follow nextUri.
adoptId(w, result) ==
  IF w.qs.queryId = NoId /\ result.id # NoId
  THEN emit([w EXCEPT !.qs.queryId = result.id], "id", "", result.id)
  ELSE w

adoptColumns(w, result) ==
  IF w.qs.columns = NoColumns /\ result.columns # NoColumns
  THEN emit([w EXCEPT !.qs.columns = result.columns], "columns", "", result.columns)
  ELSE w

\* `stats` for a result that has them, `state_change` when the state differs
\* from the last one.
emitStats(w, result) ==
  IF result.stats = NoStats THEN w
  ELSE LET w1 == emit(w, "stats", result.stats, 0)
       IN IF result.stats # w.qs.lastUpstreamState
          THEN emit([w1 EXCEPT !.qs.lastUpstreamState = result.stats],
                    "state_change", result.stats, 0)
          ELSE w1

bufferPage(w, result) ==
  IF Len(result.data) > 0
  THEN [emit(w, "raw_page_size", "", Len(result.data))
          EXCEPT !.qs.received = TRUE, !.qs.buffer = result.data]
  ELSE w

\* follow that takes the protocol of the nextUri along.
follow_adoptProtocol(w, result) ==
  CASE result.nextUri.kind = "none" -> [w EXCEPT !.qs.upstreamFinished = TRUE]
    [] result.nextUri.kind = "invalid" ->
         [w EXCEPT !.log = Append(@, Ev("throw", "ERR_INVALID_URL", 0, ""))]
    [] OTHER ->
         [w EXCEPT !.qs.prevPath = w.qs.requestOptions.path,
                   !.qs.requestOptions =
                      [path |-> result.nextUri.path, method |-> "GET",
                       body |-> NoBody, expectStatusCode |-> 200,
                       hostname |-> result.nextUri.hostname,
                       port |-> IF result.nextUri.port # PortUnset
                                THEN result.nextUri.port ELSE PortAbsent,
                       protocol |-> result.nextUri.protocol,
                       headers |-> NoHeaders]]

\* new URL(result.nextUri) throws a TypeError on a string it cannot parse;
\* nothing catches it, and _land is left at that line. The request options of
\* a continuation have a port only if the nextUri has one, and no protocol.
follow(w, result) ==
  CASE result.nextUri.kind = "none" -> [w EXCEPT !.qs.upstreamFinished = TRUE]
    [] result.nextUri.kind = "invalid" ->
         [w EXCEPT !.log = Append(@, Ev("throw", "ERR_INVALID_URL", 0, ""))]
    [] OTHER ->
         [w EXCEPT !.qs.prevPath = w.qs.requestOptions.path,
                   !.qs.requestOptions =
                      [path |-> result.nextUri.path, method |-> "GET",
                       body |-> NoBody, expectStatusCode |-> 200,
                       hostname |-> result.nextUri.hostname,
                       port |-> IF result.nextUri.port # PortUnset
                                THEN result.nextUri.port ELSE PortAbsent,
                       protocol |-> NoProtocol, headers |-> NoHeaders]]

_land(w, result, ch) ==
  LET w0 == [w EXCEPT !.qs.inflight = FALSE]
  IN IF result.err # NoError THEN landError(w0, result.err)
     ELSE LET w1 == follow(bufferPage(emitStats(adoptColumns(adoptId(w0, result),
                                                             result), result),
                                      result), result)
          IN IF result.nextUri.kind = "invalid" THEN w1
             ELSE _read([w1 EXCEPT !.qs.reading = FALSE], ch)

\* _descend whose cancel-after-id handler passes on the error of the request.
_descend_passError(w, result, ch) ==
  CASE w.qs.land = "_land" -> _land(w, result, ch)
    [] w.qs.land = "wait" ->
         _cancel(w, result.id, IF result.err # NoError THEN result.err ELSE w.cb.err)
    [] OTHER -> w

\* _descend(err, result): whatever this._land is bound to by now.
_descend(w, result, ch) ==
  CASE w.qs.land = "_land" -> _land(w, result, ch)
    [] w.qs.land = "wait" -> _cancel(w, result.id, w.cb.err)
    [] OTHER -> w

\* ------------------------------------------------------------ environment
Rows(from, n) == [i \in 1..n |-> from + i]

Min(a, b) == IF a < b THEN a ELSE b

\* What client.request can call back with for the statement request r: an
\* error (a response carrying `error` is called back as a PrestoError), or a
\* result. A page of data comes with its columns, and the coordinator repeats
\* the id of a statement in every response that follows the first with an id.
\* The bounds cap the length of the nextUri chain, the restarts and the rows.
MoreRequests == Cardinality(StatementSends) < MaxRequests

ResultsFrom(r, uris) ==
  {[err |-> NoError, id |-> id, columns |-> IF d > 0 THEN r.seq ELSE NoColumns,
    data |-> Rows(Len(recvRows), d), nextUri |-> u, stats |-> NoStats] :
     id \in IF qs.queryId = NoId THEN {NoId, r.seq} ELSE {qs.queryId},
     d \in 0..Min(MaxPage, MaxRows - Len(recvRows)),
     u \in {NoUri} \cup (IF MoreRequests THEN uris ELSE {})}

\* A coordinator that answers with a nextUri on itself: the same path again
\* (poll) or the next one.
NextUris(r) ==
  {Url(r.opts.protocol, r.opts.hostname, r.opts.port, path) :
     path \in {r.opts.path, r.opts.path + 1}}

Results(r) == ResultsFrom(r, NextUris(r))

Errors(r) ==
  {[err |-> c, id |-> NoId, columns |-> NoColumns, data |-> <<>>,
    nextUri |-> NoUri, stats |-> NoStats] :
     c \in IF MoreRequests THEN ErrorCodes ELSE ErrorCodes \ RETRY_ERROR_CODES}

\* A stream that was destroyed looks at most at the id of an outcome.
Outcomes(r) ==
  IF qs.land = "_land" THEN Results(r) \cup Errors(r)
  ELSE {x \in Results(r) : x.data = <<>> /\ x.nextUri = NoUri}
       \cup {x \in Errors(r) : x.err = "ECONNREFUSED"}

\* How the consumer treats the pushes of one call of _read: which push returns
\* false (stop), and in which 'data' handler it calls stream.destroy()
\* (destroyAt); 0 is none, n the rows there are to push.
Choices(n) ==
  {c \in [stop : 0..n, destroyAt : 0..n] : c.stop = 0 \/ c.destroyAt <= c.stop}

\* The kind of outcome a statement request was called back with.
Kind(result) ==
  IF result.err = NoError THEN "result"
  ELSE IF result.err \in RETRY_ERROR_CODES THEN "transient" ELSE "fatal"

\* Bookkeeping of the outcomes: kind, rows, error code and nextUri of those
\* called back while the stream is not destroyed, and every id.
received(w, result) ==
  LET w1 == IF w.qs.destroyed THEN w
            ELSE [w EXCEPT !.log = Append(@, Ev("recv", Kind(result), Len(result.data), result.err)),
                           !.recvRows = @ \o result.data,
                           !.lastUri = IF result.err = NoError
                                       THEN result.nextUri ELSE @]
  IN IF result.id # NoId
     THEN [w1 EXCEPT !.log = Append(@, Ev("recvid", "", result.id, ""))]
     ELSE w1

\* Bookkeeping of the outcome of the DELETE.
receivedCancel(w, cancelationErr) ==
  [w EXCEPT !.log = Append(@, Ev("recvdelete", "", 0, cancelationErr))]

\* createPageStream(sql, opts) with a pageSize; createRowStream(sql, opts),
\* which never looks at pageSize.
AllOptions ==
  {o \in [paging : BOOLEAN, pageSize : PageSizes, maxRetries : 0..MaxRetriesOpt,
          protocol : Protocols] :
     o.paging \/ o.pageSize = 1}

\* A client with the default protocol.
Options == {o \in AllOptions : o.protocol = "http:"}

\* ----------------------------------------------------------------- Client
MaxStatements == 2    \* statements run on one client

\* The strings of the session store are sequences of characters.
Absent == <<>>              \* a header that is not there
Json == "application/json"
Text == "text/plain"

KeyA == <<"a", "a">>
KeyB == <<"b", "b">>
Keys == {KeyA, KeyB}

\* String(value) of a small number.
String(n) == <<<<"0", "1", "2", "3", "4", "5", "6", "7", "8", "9">>[n + 1]>>

\* sql-escape-string: wraps in single quotes and escapes single quotes via ''.
RECURSIVE doubled(_)
doubled(s) ==
  IF s = <<>> THEN <<>>
  ELSE (IF Head(s) = "'" THEN <<"'", "'">> ELSE <<Head(s)>>) \o doubled(Tail(s))

escapeString(s) == <<"'">> \o doubled(s) \o <<"'">>

\* The value set() puts in its SET SESSION statement.
serialize(value) ==
  CASE value.type = "string" -> escapeString(value.s)
    [] value.type = "number" -> String(value.n)
    [] value.type = "boolean" ->
         IF value.b THEN <<"t", "r", "u", "e">> ELSE <<"f", "a", "l", "s", "e">>

\* kv.split('=')[0]
RECURSIVE split0(_)
split0(kv) ==
  IF kv = <<>> \/ Head(kv) = "=" THEN <<>>
  ELSE <<Head(kv)>> \o split0(Tail(kv))

\* pairs.join(',')
RECURSIVE join(_)
join(pairs) ==
  IF pairs = <<>> THEN <<>>
  ELSE IF Len(pairs) = 1 THEN pairs[1]
  ELSE pairs[1] \o <<",">> \o join(Tail(pairs))

\* A Map is the sequence of its entries in insertion order.
Map_has(map, key) == \E i \in 1..Len(map) : map[i].key = key

\* Map.prototype.set: an existing key keeps its place.
Map_set(map, key, value) ==
  IF Map_has(map, key)
  THEN [i \in 1..Len(map) |->
          IF map[i].key = key THEN [key |-> key, value |-> value] ELSE map[i]]
  ELSE Append(map, [key |-> key, value |-> value])

Map_delete(map, key) == SelectSeq(map, LAMBDA e : e.key # key)

Map_values(map) == [i \in 1..Len(map) |-> map[i].value]

\* new Client(opts): opts.headers is here its x-presto-session entry.
NewClient(headers) ==
  [headers |-> headers, maxRetries |-> 1, _session |-> <<>>]

\* A request that puts only the first pair of the store in the header.
sessionPairs_first(c, method) ==
  IF method = "POST" /\ Len(c._session) > 0
  THEN Map_values(c._session)[1]
  ELSE Absent

\* A request that puts the pairs of the store in the header whatever its
\* method.
sessionPairs_anyMethod(c, method) ==
  IF Len(c._session) > 0 THEN join(Map_values(c._session)) ELSE Absent

\* request(): the x-presto-session header made from the session store.
sessionPairs(c, method) ==
  IF method = "POST" /\ Len(c._session) > 0
  THEN join(Map_values(c._session))
  ELSE Absent

\* request(): the x-presto-session header of the request, after the headers
\* of the client were copied over it.
xPrestoSession(c, method) ==
  IF c.headers # Absent /\ method = "POST"
  THEN c.headers
  ELSE sessionPairs(c, method)

\* _makeRequest: the session update of a result.
updateSession(map, res) ==
  IF res.updateType = "SET SESSION" /\ res.set # Absent
  THEN Map_set(map, split0(res.set), res.set)
  ELSE IF res.updateType = "RESET SESSION"
  THEN Map_delete(map, res.clear)
  ELSE map

\* What _makeRequest does with a response.
Fate(s, res) ==
  CASE res.statusCode = 307 -> "redirect"
    [] res.statusCode = 503 -> "unavailable"
    [] res.statusCode # s.expectStatusCode -> "status"
    [] ~s.json -> "buffer"
    [] res.contentType # Json -> "content-type"
    [] ~res.parses -> "parse"
    [] res.error -> "error"
    [] OTHER -> "result"

\* A response handler that updates the session before it looks at
\* result.error.
sessionAfter_early(map, s, res) ==
  IF Fate(s, res) \in {"error", "result"} THEN updateSession(map, res) ELSE map

\* A transport that leaves the store alone once the stream of the request
\* was destroyed.
sessionAfter_live(map, s, res) ==
  IF s.phase = "flying" /\ Fate(s, res) = "result"
  THEN updateSession(map, res)
  ELSE map

\* The session store after _makeRequest handled a response.
sessionAfter(map, s, res) ==
  IF Fate(s, res) = "result" THEN updateSession(map, res) ELSE map

\* What was seen of a key: the last report of set() or reset() for it that
\* no response has contradicted since, the value set() was given, and whether
\* no POST was made since the report, unless it is the request last made.
NoReport == [what |-> "none", value |-> Absent, next |-> FALSE]

\* What was received for a key: the last pair, the place of the key among the
\* keys received and not cleared since, and the statement that received it
\* unless its callback was called.
NoEntry == [kv |-> Absent, rank |-> 0, by |-> 0]

\* The request made by request(), as long as it is the last thing done: no
\* response was handled and no callback called since.
NoRequest == [method |-> "", header |-> Absent, fresh |-> FALSE]

\* Nothing was observed yet.
Unseen ==
  [book |-> [k \in Keys |-> NoEntry], request |-> NoRequest,
   reported |-> [k \in Keys |-> NoReport]]

\* ---------------------------------------------------------------- actions
\* A stream right after createPageStream or createRowStream.
FreshStream ==
  /\ qs = Construct
  /\ timers = {}
  /\ net = {}
  /\ cb = [st |-> "none", err |-> NoError]
  /\ log = <<>>
  /\ pushed = <<>>
  /\ recvRows = <<>>
  /\ atDestroy = [called |-> FALSE, case |-> "", queryId |-> NoId,
                  inflight |-> FALSE, upstreamFinished |-> FALSE,
                  errored |-> FALSE, timers |-> {}, sends |-> 0, err |-> NoError]
  /\ destroys = 0
  /\ wire = <<>>
  /\ lastUri = NoUri

\* The stream of the one statement run on a new client.
Fresh ==
  /\ FreshStream
  /\ client = NewClient(Absent)
  /\ statements = <<>>
  /\ seen = Unseen

Init == cfg \in Options /\ Fresh

\* process.nextTick runs before any timer, response or consumer call.
Quiet == cb.st # "tick"

\* The Readable asks for more: _read().
Read ==
  /\ Quiet
  /\ ~qs.ended
  /\ \E ch \in Choices(Len(qs.buffer) - qs.bufferIndex) :
       Becomes(_read(World, ch))

\* A timer set by _taxi or by the retry of _land fires: _takeoff().
Timer ==
  /\ Quiet
  /\ \E t \in timers : Becomes(_takeoff([World EXCEPT !.timers = @ \ {t}]))

\* client.request calls back for a statement request: _descend(err, result).
Descend ==
  /\ Quiet
  /\ \E r \in net :
       /\ r.opts.method # "DELETE"
       /\ \E result \in Outcomes(r) :
            \E ch \in Choices(IF qs.land = "_land" THEN Len(result.data) ELSE 0) :
              Becomes(_descend(received([World EXCEPT !.net = @ \ {r}], result),
                               result, ch))

\* client.request calls back for the DELETE of _cancel.
CancelDone ==
  /\ Quiet
  /\ \E r \in net :
       /\ r.opts.method = "DELETE"
       /\ \E cancelationErr \in {NoError, CancelError} :
            Becomes(callback(receivedCancel([World EXCEPT !.net = @ \ {r}],
                                            cancelationErr),
                             cb.err, cancelationErr))

\* process.nextTick(callback, err) of _cancel.
Tick ==
  /\ cb.st = "tick"
  /\ Becomes(callback(World, cb.err, NoError))

\* The consumer calls stream.destroy(err) between two handlers.
Destroy ==
  /\ Quiet
  /\ \E err \in {NoError, UserError} : Becomes(destroy(World, err))

Next == Read \/ Timer \/ Descend \/ CancelDone \/ Tick \/ Destroy

Spec == Init /\ [][Next]_vars

\* A consumer that only calls stream.destroy() without an error.
DestroyPlain ==
  /\ Quiet
  /\ Becomes(destroy(World, NoError))

NextPlain == Read \/ Timer \/ Descend \/ CancelDone \/ Tick \/ DestroyPlain

SpecPlain == Init /\ [][NextPlain]_vars

\* ------------------------------------------------- coordinators and URLs
\* A coordinator behind several hosts: a nextUri may name another host, have
\* no port, have the other scheme, or be no URL at all.
AnyUris(r) ==
  {Url(protocol, hostname, port, path) :
     protocol \in Protocols, hostname \in {ClientHost, OtherHost},
     port \in {PortUnset, ClientPort, OtherPort},
     path \in {r.opts.path, r.opts.path + 1}}
  \cup {InvalidUri}

\* The statement returns no rows; it may fail with a transient or with
\* another Presto error.
UriOutcomes(r) ==
  IF qs.land = "_land"
  THEN {x \in ResultsFrom(r, AnyUris(r)) : x.data = <<>>}
       \cup {x \in Errors(r) : x.err \in {"SERVER_STARTING_UP", "EXCEEDED_TIME_LIMIT"}}
  ELSE Outcomes(r)

DescendUri ==
  /\ Quiet
  /\ \E r \in net :
       /\ r.opts.method # "DELETE"
       /\ \E result \in UriOutcomes(r) :
            \E ch \in Choices(0) :
              Becomes(_descend(received([World EXCEPT !.net = @ \ {r}], result),
                               result, ch))

\* A row stream of a client with either protocol.
InitUri == cfg \in {o \in AllOptions : ~o.paging} /\ Fresh

NextUri == Read \/ Timer \/ DescendUri \/ CancelDone \/ Tick \/ DestroyPlain

SpecUri == InitUri /\ [][NextUri]_vars

\* -------------------------------------------------------------- transport
MaxFaults == 3        \* responses other than a result, and socket errors

ProtocolSwitch == "HTTP 307 redirect protocol switch is not allowed"
MissingLocation == "HTTP 307 redirect is missing \"location\" header"
InvalidLocation == "HTTP 307 redirect has invalid \"location\" header: foo"
UnexpectedStatus == "Unexpected HTTP status code"

\* Errors of the socket: the 'error' event of the request, the socket timeout.
SocketCodes == {"ECONNREFUSED", "ECONNRESET", "ETIMEDOUT"}

\* Status codes a server answers with.
Statuses == {200, 204, 307, 404, 500, 503}

\* herr(statusCode): an http error, here its message; statusCode(err) is the
\* statusCode property of an error, 0 if it has none.
herr(status) ==
  CASE status = 404 -> "Not Found"
    [] status = 500 -> "Internal Server Error"
    [] status = 503 -> "Service Unavailable"

statusCode(err) ==
  CASE err = "Not Found" -> 404
    [] err = "Internal Server Error" -> 500
    [] err = "Service Unavailable" -> 503
    [] OTHER -> 0

\* retryable that also retries a socket timeout.
retryable_timeout(err) ==
  \/ err \in {"ECONNREFUSED", "ECONNRESET", "ETIMEDOUT"}
  \/ statusCode(err) = 503

retryable(err) ==
  \/ err = "ECONNREFUSED"
  \/ err = "ECONNRESET"
  \/ statusCode(err) = 503

\* callback(err): what the transport calls back with when it fails.
Failure(err) ==
  [err |-> err, id |-> NoId, columns |-> NoColumns, data |-> <<>>,
   nextUri |-> NoUri, stats |-> NoStats]

\* The callback given to client.request, called with the final outcome of the
\* request r: _descend for a statement request, the callback of _cancel for
\* the DELETE.
finish(w, r, result, ch) ==
  LET w1 == [w EXCEPT !.wire = Append(@, [Dispatch(r, "callback")
                                            EXCEPT !.code = result.err])]
  IN IF r.opts.method = "DELETE"
     THEN callback(receivedCancel(w1, result.err), w1.cb.err, result.err)
     ELSE _descend(received(w1, result), result, ch)

\* abort that retries once more than maxRetries allows.
abort_inclusive(w, r, err, ch) ==
  IF r.attempts <= w.cfg.maxRetries /\ retryable(err)
  THEN [w EXCEPT !.net = @ \cup {[r EXCEPT !.attempts = @ + 1,
                                           !.phase = "sleeping"]},
                 !.log = Append(@, Ev("retry", r.opts.method, r.seq, err))]
  ELSE finish(w, r, Failure(err), ch)

\* abort(err) of _makeRequest: retry after backoff.duration(), which counts
\* the attempt, and emit 'retry'; or call back with the error.
abort(w, r, err, ch) ==
  IF r.attempts < w.cfg.maxRetries /\ retryable(err)
  THEN [w EXCEPT !.net = @ \cup {[r EXCEPT !.attempts = @ + 1,
                                           !.phase = "sleeping"]},
                 !.log = Append(@, Ev("retry", r.opts.method, r.seq, err))]
  ELSE finish(w, r, Failure(err), ch)

\* redirect that counts the redirect as an attempt.
redirect_counted(w, r, location, ch) ==
  CASE location.kind = "none" -> abort(w, r, MissingLocation, ch)
    [] location.kind = "invalid" -> abort(w, r, InvalidLocation, ch)
    [] location.protocol # r.opts.protocol -> abort(w, r, ProtocolSwitch, ch)
    [] OTHER ->
         _makeRequest(w, [r EXCEPT !.opts.hostname = location.hostname,
                                   !.opts.port = location.port,
                                   !.opts.path = location.path,
                                   !.attempts = @ + 1],
                      "redirect")

\* redirect that follows a location of either protocol.
redirect_anyProtocol(w, r, location, ch) ==
  CASE location.kind = "none" -> abort(w, r, MissingLocation, ch)
    [] location.kind = "invalid" -> abort(w, r, InvalidLocation, ch)
    [] OTHER ->
         _makeRequest(w, [r EXCEPT !.opts.hostname = location.hostname,
                                   !.opts.port = location.port,
                                   !.opts.path = location.path,
                                   !.opts.protocol = location.protocol],
                      "redirect")

\* HTTP 307: _makeRequest with the hostname, port and path of the location,
\* the other options, the same backoff and the same callback.
redirect(w, r, location, ch) ==
  CASE location.kind = "none" -> abort(w, r, MissingLocation, ch)
    [] location.kind = "invalid" -> abort(w, r, InvalidLocation, ch)
    [] location.protocol # r.opts.protocol -> abort(w, r, ProtocolSwitch, ch)
    [] OTHER ->
         _makeRequest(w, [r EXCEPT !.opts.hostname = location.hostname,
                                   !.opts.port = location.port,
                                   !.opts.path = location.path],
                      "redirect")

\* The response handler of http.request.
onResponse(w, r, res, ch) ==
  LET w0 == [w EXCEPT !.net = @ \ {r},
                      !.wire = Append(@, [Dispatch(r, "response")
                                            EXCEPT !.status = res.status,
                                                   !.code = res.body.err,
                                                   !.location = res.location])]
  IN CASE res.status = 307 -> redirect(w0, r, res.location, ch)
       [] res.status = 503 -> abort(w0, r, herr(503), ch)
       [] res.status # r.opts.expectStatusCode ->
            finish(w0, r,
                   Failure(IF res.status > 399 /\ res.status < 600
                           THEN herr(res.status) ELSE UnexpectedStatus), ch)
       [] OTHER -> finish(w0, r, res.body, ch)

\* The 'error' event of the request, or its socket timeout: abort(err).
onError(w, r, code, ch) ==
  abort([w EXCEPT !.net = @ \ {r},
                  !.wire = Append(@, [Dispatch(r, "error") EXCEPT !.code = code])],
        r, code, ch)

\* Where a 307 may point: another host with or without a port, in either
\* scheme; or the header is missing or is no URL.
Locations(r) ==
  {Url(protocol, OtherHost, port, r.opts.path) :
     protocol \in Protocols, port \in {PortUnset, OtherPort}}
  \cup {NoUri, InvalidUri}

\* What went wrong so far: socket errors, and responses with a failure
\* status, a redirect or an `error`.
Faults ==
  {i \in 1..Len(wire) :
     \/ wire[i].via = "error"
     \/ wire[i].via = "response" /\ (wire[i].status > 204 \/ wire[i].code # NoError)}

MoreFaults == Cardinality(Faults) < MaxFaults

\* JSON bodies of a response with the expected status: a result without
\* rows, with the id of the query and maybe the nextUri of the next path on
\* the host of the request; or an `error`. The DELETE is answered without a
\* body.
Bodies(r) ==
  IF r.opts.method = "DELETE" THEN {Failure(NoError)}
  ELSE {x \in ResultsFrom(r, {Url(r.opts.protocol, r.opts.hostname, r.opts.port,
                                  r.opts.path + 1)}) :
          x.data = <<>> /\ x.id # NoId}
       \cup {x \in Errors(r) :
               MoreFaults /\ x.err \in {"SERVER_STARTING_UP", "EXCEEDED_TIME_LIMIT"}}

Responses(r) ==
  {[status |-> r.opts.expectStatusCode, location |-> NoUri, body |-> b] :
     b \in Bodies(r)}
  \cup {[status |-> s, location |-> NoUri, body |-> Failure(NoError)] :
          s \in IF MoreFaults THEN Statuses \ {r.opts.expectStatusCode, 307}
                ELSE {}}
  \cup {[status |-> 307, location |-> l, body |-> Failure(NoError)] :
          l \in IF MoreFaults THEN Locations(r) ELSE {}}

\* The server answers the request r.
Response ==
  /\ Quiet
  /\ \E r \in net :
       /\ r.phase = "wire"
       /\ \E res \in Responses(r) :
            \E ch \in Choices(0) : Becomes(onResponse(World, r, res, ch))

\* The connection of the request r fails or times out.
SocketError ==
  /\ Quiet
  /\ \E r \in net :
       /\ r.phase = "wire"
       /\ MoreFaults
       /\ \E code \in SocketCodes :
            \E ch \in Choices(0) : Becomes(onError(World, r, code, ch))

\* The timer set by abort fires: _makeRequest(opts, backoff, callback_).
Resend ==
  /\ Quiet
  /\ \E r \in net :
       /\ r.phase = "sleeping"
       /\ Becomes(_makeRequest([World EXCEPT !.net = @ \ {r}], r, "retry"))

\* A consumer that reads the stream until it ends or fails.
NextTransport == Read \/ Timer \/ Response \/ SocketError \/ Resend \/ Tick

SpecTransport == InitUri /\ [][NextTransport]_vars

\* ------------------------------------------------------------------ pages
MaxPageSize == 2      \* largest value of the pageSize option
MaxPageRows == 3      \* rows of the statement, and of its largest page

\* Results with pages of up to MaxPageRows rows.
Pages(r) ==
  {[err |-> NoError, id |-> r.seq, columns |-> IF d > 0 THEN r.seq ELSE NoColumns,
    data |-> Rows(Len(recvRows), d), nextUri |-> u, stats |-> NoStats] :
     d \in 0..(MaxPageRows - Len(recvRows)),
     u \in {NoUri} \cup (IF MoreRequests THEN NextUris(r) ELSE {})}

\* client.request calls back with a result; the consumer lets any push return
\* false and does not destroy the stream.
DescendPage ==
  /\ Quiet
  /\ \E r \in net :
       \E result \in Pages(r) :
         \E ch \in {c \in Choices(Len(result.data)) : c.destroyAt = 0} :
           Becomes(_descend(received([World EXCEPT !.net = @ \ {r}], result),
                            result, ch))

\* The Readable asks for more.
ReadPage ==
  /\ Quiet
  /\ ~qs.ended
  /\ \E ch \in {c \in Choices(Len(qs.buffer) - qs.bufferIndex) : c.destroyAt = 0} :
       Becomes(_read(World, ch))

\* createPageStream or createRowStream with any pageSize.
InitPages ==
  /\ cfg \in [paging : BOOLEAN, pageSize : 0..MaxPageSize,
              maxRetries : {MaxRetriesOpt}, protocol : {"http:"}]
  /\ Fresh

NextPages == ReadPage \/ Timer \/ DescendPage

SpecPages == InitPages /\ [][NextPages]_vars

\* -------------------------------------------------------------- documents
\* The JSON body of a response with status 200: id, columns, stats, and either
\* data and nextUri or an `error`. An id or columns may differ from the ones
\* before; a page of data comes with its columns.
Documents(r) ==
  {[err |-> NoError, id |-> id, columns |-> IF d > 0 THEN r.seq ELSE c,
    data |-> Rows(Len(recvRows), d), nextUri |-> u, stats |-> st] :
     id \in {NoId, r.seq}, c \in {NoColumns, r.seq},
     d \in 0..Min(1, MaxRows - Len(recvRows)),
     u \in {NoUri} \cup (IF MoreRequests THEN NextUris(r) ELSE {}),
     st \in {NoStats, "RUNNING"}}
  \cup
  {[err |-> e, id |-> r.seq, columns |-> NoColumns, data |-> <<>>,
    nextUri |-> NoUri, stats |-> st] :
     e \in IF MoreRequests THEN {"SERVER_STARTING_UP", "EXCEEDED_TIME_LIMIT"}
           ELSE {"EXCEEDED_TIME_LIMIT"},
     st \in {NoStats, "FAILED"}}

\* What _makeRequest calls back with for a parsed body: a PrestoError for a
\* body with an `error`, else the body.
parsed(document) ==
  IF document.err # NoError THEN Failure(document.err) ELSE document

\* A response with status 200 and a JSON body arrives for the request r.
DescendDocument ==
  /\ Quiet
  /\ \E r \in net :
       \E document \in Documents(r) :
         \E ch \in {c \in Choices(Len(document.data)) : c.destroyAt = 0} :
           LET w0 == [World EXCEPT !.net = @ \ {r},
                                   !.log = Append(@, Ev("response", document.stats,
                                                        document.id, document.err))]
           IN Becomes(_descend(received(w0, parsed(document)), parsed(document), ch))

NextDocuments == ReadPage \/ Timer \/ DescendDocument \/ Tick

SpecDocuments == Init /\ [][NextDocuments]_vars

\* ---------------------------------------------- failures after destroy
\* What a request in flight fails with: a socket timeout, a transport error,
\* a Presto error.
Failures == {"ETIMEDOUT", "ECONNRESET", "SERVER_STARTING_UP", "EXCEEDED_TIME_LIMIT"}

\* client.request calls back with an error for a statement request of a
\* stream that was destroyed.
Fail ==
  /\ Quiet
  /\ qs.destroyed
  /\ \E r \in net :
       /\ r.opts.method # "DELETE"
       /\ \E err \in Failures :
            \E ch \in Choices(0) :
              Becomes(_descend([World EXCEPT !.net = @ \ {r},
                                             !.log = Append(@, Ev("failure", err, r.seq, ""))],
                               Failure(err), ch))

\* A row stream.
InitFail == cfg \in {o \in Options : ~o.paging} /\ Fresh

NextFail == Read \/ Timer \/ Descend \/ Fail \/ CancelDone \/ Tick \/ Destroy

SpecFail == InitFail /\ [][NextFail]_vars

\* ------------------------------------------- errors leaving the transport
\* A row stream over http that is read until it ends or fails, its requests
\* answered with any status, redirect, body or socket error.
SpecEscape == InitFail /\ [][NextTransport]_vars

\* ----------------------------------------------- destroy and the transport
\* Enough faults to use up the attempts of one request.
FewFaults == Cardinality(Faults) < MaxRetriesOpt + 1

\* How the server answers the request r: the expected status with a result
\* without rows (its nextUri has the same path or the next) or with a
\* retryable Presto error; or 503.
Service(r) ==
  {[status |-> r.opts.expectStatusCode, location |-> NoUri, body |-> b] :
     b \in IF r.opts.method = "DELETE" THEN {Failure(NoError)}
           ELSE {x \in Results(r) : x.data = <<>>}
                \cup {x \in Errors(r) : FewFaults /\ x.err = "SERVER_STARTING_UP"}}
  \cup {[status |-> 503, location |-> NoUri, body |-> Failure(NoError)] :
          x \in IF FewFaults THEN {0} ELSE {}}

\* The server answers the request r.
Served ==
  /\ Quiet
  /\ \E r \in net :
       /\ r.phase = "wire"
       /\ \E res \in Service(r) :
            \E ch \in Choices(0) : Becomes(onResponse(World, r, res, ch))

\* A consumer that may call stream.destroy() at any time.
NextCancel == Read \/ Timer \/ Served \/ Resend \/ Tick \/ DestroyPlain

SpecCancel == InitFail /\ [][NextCancel]_vars

\* ------------------------------------------------ signals of one attempt
\* _makeRequest signal by signal. An attempt is one call of _makeRequest: it
\* is on the wire until the headers of a response arrive, then collects the
\* body (phase "body") unless the status is 307 or 503. Once its callback is
\* marked as called (by once(), or by hand before a retry or a redirect) the
\* attempt is superseded (phase "called", or "calledBody" when it collects a
\* body); its request may still signal: the error of req.abort(), a timeout,
\* the end of the body.
called(r) == r.phase \in {"called", "calledBody"}

superseded(r) ==
  [r EXCEPT !.phase = IF @ = "body" THEN "calledBody" ELSE "called"]

\* The requests with the attempt r superseded; of the superseded attempts
\* only the last one still signals.
supersede(requests, r) ==
  {x \in requests : ~called(x)} \cup {superseded(r)}

\* abort(err) that goes on when the callback was called.
signal_unguarded(w, r, err, ch) ==
  LET w1 == onError(w, r, err, ch)
  IN [w1 EXCEPT !.net = supersede(@, r)]

\* abort(err): req.abort(), and nothing more if the callback was called;
\* else a retry, or the callback with the error.
signal(w, r, err, ch) ==
  IF called(r)
  THEN [w EXCEPT !.net = @ \ {r},
                 !.wire = Append(@, [Dispatch(r, "late") EXCEPT !.code = err])]
  ELSE LET w1 == onError(w, r, err, ch)
       IN [w1 EXCEPT !.net = supersede(@, r)]

\* The socket timeout reported as a reset connection.
onTimeout_reset(w, r, ch) == signal(w, r, "ECONNRESET", ch)

\* req.setTimeout(this.socketTimeout, ...): abort with the code ETIMEDOUT.
onTimeout(w, r, ch) == signal(w, r, "ETIMEDOUT", ch)

\* The response handler up to concat: a 307 is followed or aborts, a 503
\* aborts; the request is aborted in each case. Any other response has its
\* body collected.
onHeaders(w, r, res, ch) ==
  IF res.status \in {307, 503}
  THEN LET w1 == onResponse(w, r, res, ch)
       IN [w1 EXCEPT !.net = supersede(@, r)]
  ELSE [w EXCEPT !.net = (@ \ {r}) \cup {[r EXCEPT !.phase = "body"]},
                 !.wire = Append(@, Dispatch(r, "headers"))]

\* The callback of concat without an error: nothing if the callback was
\* called, else the checks on status and body, and the callback.
onConcat(w, r, res, ch) ==
  IF called(r)
  THEN [w EXCEPT !.net = @ \ {r}, !.wire = Append(@, Dispatch(r, "late"))]
  ELSE LET w1 == onResponse(w, [r EXCEPT !.phase = "wire"],
                            res, ch)
       IN [w1 EXCEPT !.net = @ \ {r}]

\* Headers of a response to the request r: 307 to another host, 503, or the
\* start of a response with a body.
Starts(r) ==
  {[status |-> 200, location |-> NoUri, body |-> Failure(NoError)]}
  \cup {[status |-> 503, location |-> NoUri, body |-> Failure(NoError)] :
          x \in IF FewFaults THEN {0} ELSE {}}
  \cup {[status |-> 307, body |-> Failure(NoError),
          location |-> Url(r.opts.protocol, OtherHost, OtherPort, r.opts.path)] :
          x \in IF FewFaults THEN {0} ELSE {}}

\* Responses with a body: the expected status and the last result of the
\* statement, without rows; or 404.
Ends(r) ==
  {[status |-> 200, location |-> NoUri, body |-> b] :
     b \in {x \in ResultsFrom(r, {}) : x.data = <<>> /\ x.id # NoId}}
  \cup {[status |-> 404, location |-> NoUri, body |-> Failure(NoError)] :
          x \in IF FewFaults THEN {0} ELSE {}}

\* The headers of a response arrive.
HeadersIn ==
  /\ Quiet
  /\ \E r \in net :
       /\ r.phase = "wire"
       /\ \E res \in Starts(r) :
            \E ch \in Choices(0) : Becomes(onHeaders(World, r, res, ch))

\* The body of a response is complete.
BodyIn ==
  /\ Quiet
  /\ \E r \in net :
       /\ r.phase = "body"
       /\ \E res \in Ends(r) :
            \E ch \in Choices(0) : Becomes(onConcat(World, r, res, ch))

\* The socket of an attempt is idle for socketTimeout, before or after the
\* headers.
SocketTimeout ==
  /\ Quiet
  /\ FewFaults
  /\ \E r \in net :
       /\ r.phase \in {"wire", "body"}
       /\ \E ch \in Choices(0) :
            Becomes(onTimeout([World EXCEPT !.log = Append(@, Ev("timeout", r.phase,
                                                                 r.seq, ""))],
                              r, ch))

\* The connection of an attempt is reset, before or after the headers:
\* req.on('error', abort), or the error concat calls back with.
Broken ==
  /\ Quiet
  /\ FewFaults
  /\ \E r \in net :
       /\ r.phase \in {"wire", "body"}
       /\ \E ch \in Choices(0) : Becomes(signal(World, r, "ECONNRESET", ch))

\* A request that was aborted, or whose callback was called, signals once
\* more: the 'error' that follows req.abort().
LateSignal ==
  /\ Quiet
  /\ \E r \in net :
       /\ called(r)
       /\ \E ch \in Choices(0) : Becomes(signal(World, r, "ECONNRESET", ch))

\* The body a superseded attempt was collecting is complete.
LateBody ==
  /\ Quiet
  /\ \E r \in net :
       /\ r.phase = "calledBody"
       /\ \E res \in Ends(r) :
            \E ch \in Choices(0) : Becomes(onConcat(World, r, res, ch))

\* A statement of one request, read until it ends or fails.
NextAttempts ==
  Read \/ HeadersIn \/ BodyIn \/ SocketTimeout \/ Broken
    \/ LateSignal \/ LateBody \/ Resend \/ Tick

SpecAttempts == InitFail /\ [][NextAttempts]_vars

\* ------------------------------------------------ responses after destroy
\* A response with status 200 and a JSON body arrives for a statement request
\* of a stream that was destroyed: any document, with rows, stats, a nextUri
\* or an `error`.
Late ==
  /\ Quiet
  /\ qs.destroyed
  /\ \E r \in net :
       /\ r.opts.method # "DELETE"
       /\ \E document \in Documents(r) :
            \E ch \in Choices(Len(document.data)) :
              LET w0 == [World EXCEPT !.net = @ \ {r},
                                      !.log = Append(@, Ev("late", document.stats,
                                                           Len(document.data),
                                                           document.err))]
              IN Becomes(_descend(received(w0, parsed(document)),
                                  parsed(document), ch))

NextLate == Read \/ Timer \/ Descend \/ Late \/ CancelDone \/ Tick \/ DestroyPlain

SpecLate == InitFail /\ [][NextLate]_vars

\* ---------------------------------------------------------------- session
\* Statements run concurrently on one client. A statement is its stream as
\* far as the session store can tell: the request it has in flight (method,
\* expectStatusCode, json, the attempts of its Backoff; it has a query id
\* once it makes a GET), its rows, and whether it is flying, canceling, ended,
\* failed (the callback of query() is then due in the same turn of the event
\* loop) or done. A request sent again after a 503 or a 307 is the request as
\* request() made it.
Values == {[type |-> "string", n |-> 0, s |-> <<"2">>, b |-> FALSE]}

\* The pairs of x-presto-set-session headers: the value as the coordinator
\* prints it, the value as set() wrote it, and a pair of another key.
A1 == KeyA \o <<"=", "2">>
A2 == KeyA \o <<"=", "'", "2", "'">>
B1 == KeyB \o <<"=", "1">>

\* What the client is asked to run: set() and reset() of one key, and
\* query() of any statement.
Calls ==
  [kind : {"set"}, key : {KeyA}, value : {serialize(v) : v \in Values}]
    \cup [kind : {"reset"}, key : {KeyA}, value : {Absent}]
    \cup [kind : {"query"}, key : {Absent}, value : {Absent}]

\* The updateType of a body and the session headers beside it.
Effects ==
  [updateType : {"SET SESSION"}, set : {Absent, A1, A2, B1}, clear : {Absent}]
    \cup [updateType : {"RESET SESSION"}, set : {Absent}, clear : {KeyA}]
    \cup [updateType : {""}, set : {Absent}, clear : {Absent}]

Datas == {<<>>, <<TRUE>>}

Reply(status, contentType, parses, error, effect, data, nextUri) ==
  [statusCode |-> status, contentType |-> contentType, parses |-> parses,
   error |-> error, updateType |-> effect.updateType, set |-> effect.set,
   clear |-> effect.clear, data |-> data, nextUri |-> nextUri]

\* Session headers on a response that is not a result.
Lures == {[updateType |-> "SET SESSION", set |-> B1, clear |-> KeyA]}

\* The responses to the request of statement s: results (a second result
\* is the last, and the one with the data), and responses _makeRequest does
\* not take for a result (the coordinator is unavailable to a POST only).
RepliesTo(s) ==
  {Reply(s.expectStatusCode, Json, TRUE, FALSE, e, d, FALSE) :
     e \in (IF s.method = "DELETE" THEN Lures ELSE Effects),
     d \in (IF s.method = "DELETE" THEN {<<>>} ELSE Datas)}
    \cup {Reply(s.expectStatusCode, Json, TRUE, FALSE, e, <<>>, TRUE) :
            e \in {f \in Effects : s.method = "POST"}}
    \cup {Reply(c, Json, TRUE, FALSE, e, <<>>, FALSE) :
            c \in {307, 404} \cup {u \in {503} : s.method = "POST"}, e \in Lures}
    \cup {Reply(s.expectStatusCode, Text, TRUE, FALSE, e, <<>>, FALSE) : e \in Lures}
    \cup {Reply(s.expectStatusCode, Json, FALSE, FALSE, e, <<>>, FALSE) : e \in Lures}
    \cup {Reply(s.expectStatusCode, Json, TRUE, TRUE, e, <<>>, FALSE) : e \in Lures}

\* No callback of query() is due.
Settled ==
  \A i \in 1..Len(statements) : statements[i].phase \notin {"ended", "failed"}

\* What was seen once the last request is no longer the last thing done.
Stale(sn) ==
  [sn EXCEPT !.request = NoRequest,
             !.reported =
               [k \in Keys |->
                  IF sn.request.fresh /\ sn.request.method = "POST"
                  THEN [sn.reported[k] EXCEPT !.next = FALSE]
                  ELSE sn.reported[k]]]

\* request(): what was seen of the request made.
Asked(sn, c, method) ==
  [Stale(sn) EXCEPT !.request = [method |-> method,
                                 header |-> xPrestoSession(c, method),
                                 fresh |-> TRUE]]

\* The options of a statement request, as request() completes them.
Flying(s, method) ==
  [s EXCEPT !.method = method, !.expectStatusCode = 200, !.json = TRUE,
            !.attempts = 0, !.phase = "flying"]

\* The streams of the statements are not looked into.
Streams ==
  <<cfg, qs, timers, net, cb, log, pushed, recvRows, atDestroy, destroys,
    wire, lastUri>>

\* query(), set() and reset(): the stream is read at once, its first _read
\* makes the POST.
Submit ==
  /\ UNCHANGED Streams
  /\ Settled
  /\ Len(statements) < MaxStatements
  /\ \E call \in Calls :
       LET i == Len(statements) + 1
           s == Flying([kind |-> call.kind, key |-> call.key,
                        value |-> call.value, method |-> "",
                        expectStatusCode |-> 0, json |-> FALSE,
                        attempts |-> 0, rows |-> <<>>, phase |-> ""],
                       "POST")
       IN /\ statements' = Append(statements, s)
          /\ seen' = Asked(seen, client, "POST")
          /\ UNCHANGED client

\* The stream is destroyed with an error: _cancel sends the DELETE when the
\* query id is known.
failed(s) ==
  IF s.method = "GET"
  THEN [s EXCEPT !.method = "DELETE", !.expectStatusCode = 204,
                 !.json = FALSE, !.attempts = 0, !.phase = "canceling"]
  ELSE [s EXCEPT !.method = "", !.phase = "failed"]

\* The statement after _makeRequest handled the response.
landed(s, c, res) ==
  CASE Fate(s, res) = "redirect" -> s
    [] Fate(s, res) = "unavailable" ->
         IF s.attempts < c.maxRetries
         THEN [s EXCEPT !.attempts = @ + 1]
         ELSE failed(s)
    [] Fate(s, res) = "buffer" -> [s EXCEPT !.method = "", !.phase = "failed"]
    [] Fate(s, res) = "result" ->
         LET s1 == [s EXCEPT !.rows = @ \o res.data]
         IN IF res.nextUri THEN Flying(s1, "GET")
            ELSE [s1 EXCEPT !.method = "", !.phase = "ended"]
    [] OTHER -> failed(s)

Present(book) == {k \in Keys : book[k].rank > 0}

\* What was seen after statement i received a result: the pair of an
\* x-presto-set-session header is the last received for its key, which takes
\* the place after the keys present unless it has one; the key of an
\* x-presto-clear-session header has no pair and no place.
Noted(sn, i, res) ==
  IF res.updateType = "SET SESSION" /\ res.set # Absent
  THEN LET k == split0(res.set)
       IN [sn EXCEPT
             !.book[k] =
               [kv |-> res.set, by |-> i,
                rank |-> IF @.rank > 0 THEN @.rank
                         ELSE Cardinality(Present(sn.book)) + 1],
             !.reported[k] = IF @.what = "reset" THEN NoReport ELSE @]
  ELSE IF res.updateType = "RESET SESSION" /\ res.clear \in Present(sn.book)
  THEN LET k == res.clear
       IN [sn EXCEPT
             !.book =
               [j \in Keys |->
                  IF j = k THEN NoEntry
                  ELSE IF sn.book[j].rank > sn.book[k].rank
                  THEN [sn.book[j] EXCEPT !.rank = @ - 1]
                  ELSE sn.book[j]],
             !.reported[k] = IF @.what = "set" THEN NoReport ELSE @]
  ELSE sn

\* The response to the request of a statement arrives.
Respond ==
  /\ UNCHANGED Streams
  /\ Settled
  /\ \E i \in 1..Len(statements) :
       /\ statements[i].phase \in {"flying", "canceling"}
       /\ \E res \in RepliesTo(statements[i]) :
            LET s == statements[i]
                fate == Fate(s, res)
                c == [client EXCEPT !._session = sessionAfter(@, s, res)]
                s1 == landed(s, c, res)
            IN /\ client' = c
               /\ statements' = [statements EXCEPT ![i] = s1]
               /\ seen' = LET sn == IF fate = "result"
                                     THEN Noted(Stale(seen), i, res)
                                     ELSE Stale(seen)
                          IN IF s1.method \in {"GET", "DELETE"} /\ s1.method # s.method
                             THEN Asked(sn, c, s1.method)
                             ELSE sn

\* The callback set() gives to query().
setOutcome(s, c) ==
  IF s.phase = "failed" THEN "error"
  ELSE IF Len(s.rows) # 1 \/ s.rows[1] # TRUE THEN "Failed to set session property"
  ELSE IF ~Map_has(c._session, s.key) THEN "Did not receive x-presto-set-session"
  ELSE "ok"

\* The callback reset() gives to query().
resetOutcome(s, c) ==
  IF s.phase = "failed" THEN "error"
  ELSE IF Len(s.rows) # 1 \/ s.rows[1] # TRUE THEN "Failed to reset session property"
  ELSE IF Map_has(c._session, s.key) THEN "Did not receive x-presto-clear-session"
  ELSE "ok"

outcomeOf(s, c) ==
  CASE s.kind = "set" -> setOutcome(s, c)
    [] s.kind = "reset" -> resetOutcome(s, c)
    [] OTHER -> IF s.phase = "failed" THEN "error" ELSE "ok"

\* The stream of a statement ended or failed: the callback given to query(),
\* set() or reset() is called, and nothing is left of the statement.
Callback ==
  \E i \in 1..Len(statements) :
    /\ UNCHANGED Streams
    /\ statements[i].phase \in {"ended", "failed"}
    /\ LET s == statements[i]
           outcome == outcomeOf(s, client)
       IN /\ statements' =
               [statements EXCEPT ![i] =
                  [s EXCEPT !.phase = "done",
                            !.rows = <<>>, !.attempts = 0, !.value = Absent,
                            !.expectStatusCode = 0, !.json = FALSE,
                            !.key = Absent, !.kind = ""]]
          /\ seen' =
               LET sn == [Stale(seen) EXCEPT
                            !.book = [k \in Keys |->
                                        IF @[k].by = i THEN [@[k] EXCEPT !.by = 0]
                                        ELSE @[k]]]
               IN IF outcome = "ok" /\ s.kind # "query"
                  THEN [sn EXCEPT !.reported[s.key] =
                          [what |-> s.kind, value |-> s.value, next |-> TRUE]]
                  ELSE sn
          /\ UNCHANGED client

\* A client, with or without an x-presto-session header of its own.
InitSession ==
  /\ cfg \in {o \in Options : ~o.paging /\ o.maxRetries = 0}
  /\ FreshStream
  /\ client \in {NewClient(h) : h \in {Absent, <<"z", "=", "0">>}}
  /\ statements = <<>>
  /\ seen = Unseen

NextSession == Submit \/ Respond \/ Callback

SpecSession == InitSession /\ [][NextSession]_vars

\* ------------------------------------------------------ destroyed streams
\* Statements run as streams of createRowStream, which the user can destroy
\* while a request is in flight. A destroyed stream is waiting (its POST is
\* in flight and _land waits for a query id), orphaned (its GET is in flight
\* with no one to land it, beside the DELETE), an orphan (the DELETE was
\* answered first and the stream has closed), or canceling (the DELETE
\* alone).
Destroyed == {"waiting", "orphaned", "orphan"}

\* createRowStream() of any statement, read at once.
Open ==
  /\ UNCHANGED Streams
  /\ Settled
  /\ Len(statements) < MaxStatements
  /\ statements' =
       Append(statements,
              Flying([kind |-> "stream", key |-> Absent, value |-> Absent,
                      method |-> "", expectStatusCode |-> 0, json |-> FALSE,
                      attempts |-> 0, rows |-> <<>>, phase |-> ""],
                     "POST"))
  /\ seen' = Asked(seen, client, "POST")
  /\ UNCHANGED client

\* destroy() by the user while the stream has a request in flight: with a
\* query id _cancel sends the DELETE at once, without one _land is replaced
\* and the stream waits for the response.
DestroyStream ==
  /\ UNCHANGED <<Streams, client>>
  /\ Settled
  /\ \E i \in 1..Len(statements) :
       /\ statements[i].phase = "flying"
       /\ IF statements[i].method = "GET"
          THEN /\ statements' = [statements EXCEPT ![i].phase = "orphaned"]
               /\ seen' = Asked(seen, client, "DELETE")
          ELSE /\ statements' = [statements EXCEPT ![i].phase = "waiting"]
               /\ seen' = Stale(seen)

\* Nothing is left of a statement whose stream has closed.
closed(s) ==
  [s EXCEPT !.phase = "done", !.method = "", !.rows = <<>>, !.attempts = 0,
            !.value = Absent, !.expectStatusCode = 0, !.json = FALSE,
            !.key = Absent, !.kind = ""]

\* The destroyed stream of statement s after _makeRequest handled the
\* response to its POST or GET: the request is sent again, or the callback
\* of request() is called, which is the _land of _destroy for a waiting
\* stream (hasId: the result has a query id) and does nothing otherwise.
ignored(s, c, res, hasId) ==
  CASE Fate(s, res) = "redirect" -> s
    [] Fate(s, res) = "unavailable" /\ s.attempts < c.maxRetries ->
         [s EXCEPT !.attempts = @ + 1]
    [] s.phase = "orphan" -> closed(s)
    [] s.phase = "orphaned"
         \/ (s.phase = "waiting" /\ Fate(s, res) = "result" /\ hasId) ->
         [s EXCEPT !.method = "DELETE", !.expectStatusCode = 204,
                   !.json = FALSE, !.attempts = 0, !.phase = "canceling"]
    [] OTHER -> [s EXCEPT !.method = "", !.phase = "failed"]

\* What was seen notes a result received for a destroyed stream under the
\* negative of the number of its statement.
Ghost(i) == 0 - i

\* The response to the POST or GET of a destroyed stream arrives.
Orphan ==
  /\ UNCHANGED Streams
  /\ Settled
  /\ \E i \in 1..Len(statements) :
       /\ statements[i].phase \in Destroyed
       /\ \E res \in RepliesTo(statements[i]) : \E hasId \in BOOLEAN :
            LET s == statements[i]
                c == [client EXCEPT !._session = sessionAfter(@, s, res)]
                s1 == ignored(s, c, res, hasId)
            IN /\ hasId \/ ~res.nextUri
               /\ client' = c
               /\ statements' = [statements EXCEPT ![i] = s1]
               /\ seen' = LET sn == IF Fate(s, res) = "result"
                                     THEN Noted(Stale(seen), Ghost(i), res)
                                     ELSE Stale(seen)
                          IN IF s.phase = "waiting" /\ s1.phase = "canceling"
                             THEN Asked(sn, c, "DELETE")
                             ELSE sn

\* The response to the DELETE of an orphaned stream arrives before the
\* response to its GET: the stream closes.
Deleted ==
  /\ UNCHANGED Streams
  /\ Settled
  /\ \E i \in 1..Len(statements) :
       /\ statements[i].phase = "orphaned"
       /\ \E res \in RepliesTo(failed(statements[i])) :
            LET s == failed(statements[i])
            IN /\ client' = [client EXCEPT !._session = sessionAfter(@, s, res)]
               /\ statements' =
                    [statements EXCEPT ![i].phase =
                       IF Fate(s, res) = "redirect" THEN @ ELSE "orphan"]
               /\ seen' = Stale(seen)

NextOrphan == Open \/ DestroyStream \/ Respond \/ Orphan \/ Deleted \/ Callback

SpecOrphan == InitSession /\ [][NextOrphan]_vars

\* ============================================================= properties
Last(e) == CHOOSE i \in Idx(e) : \A j \in Idx(e) : j <= i
NoneBefore(e, i) == \A j \in Idx(e) : j >= i
NoneAfter(e, i) == \A j \in Idx(e) : j <= i
\* The last statement request sent before position i of the log.
AttemptStart(i) ==
  LET posts == {p \in StatementSends : p < i /\ log[p].v = "POST"}
  IN CHOOSE p \in posts : \A q \in posts : q <= p

\* The stream pushed end-of-stream without having been destroyed.
EndedOk == \E i \in Idx("end") : NoneBefore("destroy", i)

\* C1: when the stream pushes end-of-stream without having been destroyed, the
\* rows it has pushed are, in order and each once, the rows of all the results
\* it was called back with.
C1_RowsDelivered == EndedOk => Flatten(pushed) = recvRows

\* A stream that ended after a restart and two pages of rows.
C1_Witness ==
  /\ EndedOk
  /\ Count("restart") >= 1
  /\ Cardinality({i \in Idx("recv") : log[i].n > 0}) >= 2
  /\ Len(pushed) >= 2

\* Position i of the log is an outcome called back before any row was
\* received and with retry budget left.
Retryable(i) ==
  /\ log[i].e = "recv"
  /\ log[i].v = "transient"
  /\ \A j \in Idx("recv") : j < i => log[j].n = 0
  /\ Cardinality({j \in Idx("restart") : j < i}) < cfg.maxRetries

\* C2: a response reporting one of the four transient Presto codes, before any
\* data and with retry budget left, does not fail the statement: the handle is
\* reset, a timer is set, and when it fires a fresh POST /v1/statement of the
\* SQL is sent. Every attempt emits the first id it receives, so the ids
\* emitted are one per attempt, in order.
C2_Restart ==
  /\ \A i \in Idx("recv") :
       Retryable(i) => /\ log[i].x \in RETRY_ERROR_CODES
                       /\ i < Len(log)
                       /\ log[i + 1].e = "restart"
  /\ \A i \in Idx("restart") :
       /\ Retryable(i - 1)
       /\ \A j \in Idx("error") \cup Idx("cancel") : j > i
       /\ (i < Len(log)) => log[i + 1].e \in {"request", "destroy"}
       /\ (i + 1 < Len(log) /\ log[i + 1].e = "request") =>
             log[i + 2] = Ev("send", "POST", StatementPath, Sql)
       /\ (i = Len(log)) =>
             /\ "retry" \in timers
             /\ qs.queryId = NoId /\ qs.columns = NoColumns
             /\ qs.prevPath = NoPath /\ qs.buffer = <<>>
             /\ qs.requestOptions = InitialRequest
             /\ ~qs.errored /\ ~qs.destroyed
  /\ \A i \in Idx("recvid") :
       (NoneBefore("destroy", i)
          /\ \A j \in Idx("recvid") : ~(AttemptStart(i) < j /\ j < i))
         => i < Len(log) /\ log[i + 1].e = "id" /\ log[i + 1].n = log[i].n
  /\ \A i \in Idx("id") :
       /\ log[i - 1].e = "recvid" /\ log[i - 1].n = log[i].n
       /\ \A j \in Idx("id") : ~(AttemptStart(i) < j /\ j < i)

\* The second attempt of a statement has emitted its own id after the first.
C2_Witness ==
  /\ Count("restart") >= 1
  /\ \E i, j \in Idx("id") :
       i < j /\ log[i].n # log[j].n /\ \E k \in Idx("restart") : i < k /\ k < j

\* C3: once a page of rows was received, an error with a transient code is not
\* answered with a restart although budget is left: no statement request
\* follows, the stream is destroyed with that error and emits it, and there is
\* neither a `cancel` nor a DELETE.
C3_NoRestartAfterData ==
  \A i \in Idx("recv") :
    (log[i].v # "result" /\ \E j \in Idx("recv") : j < i /\ log[j].n > 0)
      => /\ NoneAfter("restart", i)
         /\ \A j \in Sends : j < i
         /\ Count("cancel") = 0
         /\ qs.errored /\ qs.destroyed
         /\ cb.err = log[i].x
         /\ (cb.st = "called") =>
               \E k \in Idx("error") : log[k].v = log[i].x /\ log[k].x = NoError

C3_Witness ==
  \E i \in Idx("recv") :
    /\ log[i].v = "transient"
    /\ \E j \in Idx("recv") : j < i /\ log[j].n > 0
    /\ Count("restart") < cfg.maxRetries
    /\ cb.st = "called"

\* The stream as _destroy found it.
Live == atDestroy.called /\ ~atDestroy.upstreamFinished /\ ~atDestroy.errored

\* C4: destroyed while neither finished upstream nor errored, with a queryId
\* known: exactly one DELETE /v1/query/{queryId} expecting 204 is dispatched,
\* and `cancel` is emitted once, before the dispatch.
C4_CancelKnownQuery ==
  (Live /\ atDestroy.queryId # NoId) =>
    /\ Cardinality(Deletes) = 1
    /\ Count("cancel") = 1
    /\ \A d \in Deletes :
         /\ log[d].n = QueryPath(atDestroy.queryId)
         /\ Last("destroy") < Last("cancel") /\ Last("cancel") < d
    /\ \A r \in net :
         r.opts.method = "DELETE" =>
            /\ r.opts.expectStatusCode = 204
            /\ r.opts.path = QueryPath(atDestroy.queryId)

\* Destroyed during a poll wait, and the DELETE has been answered.
C4_Witness ==
  /\ Live /\ atDestroy.queryId # NoId
  /\ "poll" \in atDestroy.timers
  /\ cb.st = "called"

\* Destroyed with a request in flight and no queryId: _destroy waits.
Waiting == Live /\ atDestroy.queryId = NoId /\ atDestroy.inflight

Answered == \A r \in net : r.opts.method = "DELETE"

IdsSinceDestroy == {i \in Idx("recvid") : i > Last("destroy")}

\* C5: destroyed while a request is in flight and no queryId is known: the
\* stream does not close before that request is called back; if the outcome
\* carries an id, one DELETE for it and one `cancel` precede `close`; if it
\* carries none, the stream closes without a DELETE.
C5_CancelAfterInflight ==
  Waiting =>
    /\ ~Answered => Count("close") = 0 /\ Count("cancel") = 0 /\ Deletes = {}
    /\ (Answered /\ IdsSinceDestroy = {}) =>
          Count("cancel") = 0 /\ Deletes = {} /\ cb.st \in {"tick", "called"}
    /\ (Answered /\ IdsSinceDestroy # {}) =>
          /\ Count("cancel") = 1
          /\ Cardinality(Deletes) = 1
          /\ \A d \in Deletes :
               /\ \A i \in IdsSinceDestroy : log[d].n = QueryPath(log[i].n)
               /\ Last("cancel") < d
               /\ \A c \in Idx("close") : d < c
    /\ Count("close") <= 1

\* The awaited response carried an id, and the stream has closed.
C5_Witness ==
  Waiting /\ Answered /\ IdsSinceDestroy # {} /\ Count("close") = 1

\* C6: when the statement had finished upstream at the moment of destroy, no
\* `cancel` is emitted and no DELETE is sent, also when destroy is called from
\* the data handler of a row while rows of the final page are undelivered;
\* the stream closes on the next tick.
C6_NoCancelWhenFinished ==
  (atDestroy.called /\ atDestroy.upstreamFinished) =>
    /\ atDestroy.case = "skip"
    /\ Count("cancel") = 0
    /\ Deletes = {}
    /\ \A r \in net : r.opts.method # "DELETE"
    /\ cb.st \in {"tick", "called"}
    /\ (cb.st = "called") => Count("close") = 1

\* Destroyed from the data handler of a row of the final page, with a row
\* still in the buffer.
C6_Witness ==
  /\ atDestroy.called /\ atDestroy.upstreamFinished
  /\ log[Last("destroy") - 1].e = "data"
  /\ qs.bufferIndex < Len(qs.buffer)
  /\ cb.st = "called"

\* Position i of the log is an error called back to _land that is not retried.
Failed(i) == log[i].e = "recv" /\ log[i].v # "result" /\ ~Retryable(i)

\* C7: an error that is not retried destroys the stream with that error; no
\* DELETE is sent and no `cancel` is emitted, even when a queryId is known.
C7_FatalSkipsCancel ==
  \A i \in Idx("recv") :
    Failed(i) =>
      /\ i < Len(log) /\ log[i + 1].e = "destroy" /\ log[i + 1].v = log[i].x
      /\ qs.errored /\ qs.destroyed
      /\ atDestroy.case = "skip" /\ atDestroy.err = log[i].x
      /\ Count("cancel") = 0
      /\ Deletes = {}
      /\ cb.st \in {"tick", "called"}
      /\ (cb.st = "called") =>
            /\ Count("error") = 1
            /\ \A k \in Idx("error") : log[k].v = log[i].x
            /\ Count("close") = 1

\* A fatal error for a statement whose queryId was known.
C7_Witness ==
  /\ \E i \in Idx("recv") : Failed(i) /\ log[i].v = "fatal"
  /\ atDestroy.queryId # NoId
  /\ cb.st = "called"

\* C8: a stream destroyed before any request was made never sends a request:
\* neither the POST nor a DELETE.
C8_NoRequestWhenUnused ==
  (atDestroy.called /\ atDestroy.sends = 0) =>
    /\ Sends = {}
    /\ net = {}
    /\ Count("request") = 0
    /\ Count("cancel") = 0
    /\ ~qs.inflight

\* Destroyed before the first pull, closed, and destroyed again.
C8_Witness ==
  /\ atDestroy.called /\ atDestroy.sends = 0
  /\ cb.st = "called"
  /\ destroys = 2

\* C9: destroy is idempotent: _destroy runs at most once, so `cancel` is
\* emitted at most once and at most one DELETE is sent over the life of a
\* statement, however often destroy is called and also after an error.
C9_DestroyIdempotent ==
  /\ Count("destroy") <= 1
  /\ Count("cancel") <= 1
  /\ Cardinality(Deletes) <= 1
  /\ Cardinality({r \in net : r.opts.method = "DELETE"}) <= 1
  /\ qs.errored => Count("cancel") = 0 /\ Deletes = {}

\* destroy was called again after a cancelation.
C9_Witness ==
  /\ destroys = 2
  /\ Count("cancel") = 1
  /\ cb.st = "called"

\* The events a consumer of the stream can observe.
StreamEvents ==
  {"request", "id", "columns", "raw_page_size", "data", "cancel", "end",
   "error", "close"}

\* C10: a statement terminates in one way: `end` and `error` are never both
\* emitted, `error` is emitted at most once, `close` is emitted at most once
\* and no event follows it.
C10_SingleTermination ==
  /\ ~(Count("end") > 0 /\ Count("error") > 0)
  /\ Count("error") <= 1
  /\ Count("close") <= 1
  /\ \A c \in Idx("close") :
       \A j \in (c + 1)..Len(log) : log[j].e \notin StreamEvents

\* The error the DELETE of _cancel was called back with, if any.
CancelationErr ==
  IF Idx("recvdelete") = {} THEN NoError ELSE log[Last("recvdelete")].x

\* C11: a stream destroyed with an error whose DELETE fails too emits one
\* error aggregating both; with only one of the two it emits that one; with
\* neither it closes without an error.
C11_AggregateError ==
  (cb.st = "called") =>
    /\ Count("close") = 1
    /\ Count("error") <= 1
    /\ (atDestroy.err # NoError) =>
          \E i \in Idx("error") : log[i] = Ev("error", atDestroy.err, 0, CancelationErr)
    /\ (atDestroy.err = NoError /\ CancelationErr # NoError) =>
          \E i \in Idx("error") : log[i] = Ev("error", CancelationErr, 0, NoError)
    /\ (atDestroy.err = NoError /\ CancelationErr = NoError) => Count("error") = 0

\* Destroyed with an error, and the DELETE failed.
C11_Witness ==
  /\ cb.st = "called"
  /\ atDestroy.err = UserError
  /\ CancelationErr = CancelError

\* The statement requests client.request has not called back yet.
InFlight == {r \in net : r.opts.method # "DELETE"}

\* C18: a continuation request is a GET to the hostname and path of the last
\* nextUri received; it and every other request of the statement is sent with
\* the protocol of the client, whatever the scheme of a nextUri. A POST is the
\* statement itself, sent to the client's host.
C18_ContinuationTarget ==
  /\ \A r \in InFlight :
       /\ r.opts.protocol = cfg.protocol
       /\ (r.opts.method = "GET") =>
             /\ lastUri.kind = "url"
             /\ r.opts.hostname = lastUri.hostname
             /\ r.opts.path = lastUri.path
       /\ (r.opts.method # "GET") =>
             /\ r.opts.method = "POST" /\ r.opts.path = StatementPath
             /\ r.opts.hostname = ClientHost /\ r.opts.body = Sql
       /\ (lastUri.kind = "url" /\ Count("restart") = 0) => r.opts.method = "GET"
  /\ \A i \in 1..Len(wire) : wire[i].protocol = cfg.protocol

\* A continuation in flight to another host, after a nextUri of the other
\* scheme.
C18_Witness ==
  \E r \in InFlight :
    /\ r.opts.method = "GET"
    /\ lastUri.protocol # cfg.protocol
    /\ lastUri.hostname = OtherHost
    /\ r.opts.hostname = OtherHost

\* C19: a continuation request goes to the port of the nextUri; when the
\* nextUri has none, its port is left unset (the default of the protocol) and
\* is not the port the client was configured with.
C19_ContinuationPort ==
  \A r \in InFlight :
    (r.opts.method = "GET" /\ lastUri.kind = "url") =>
      /\ (lastUri.port # PortUnset) => r.opts.port = lastUri.port
      /\ (lastUri.port = PortUnset) => r.opts.port = PortUnset

\* The error the tests expect of a nextUri 'foo'.
InvalidNextUri == "Presto sent invalid nextUri: foo"

\* C20: a result whose nextUri is no URL fails the statement: the stream is
\* destroyed with the error "Presto sent invalid nextUri: <raw>", no request
\* follows and there is no `cancel` and no DELETE.
C20_InvalidNextUri ==
  (lastUri.kind = "invalid") =>
    /\ qs.destroyed
    /\ atDestroy.err = InvalidNextUri
    /\ Count("throw") = 0
    /\ Count("cancel") = 0
    /\ Deletes = {}
    /\ net = {}

\* ------------------------------------------------- properties of transport
OnWire == 1..Len(wire)
Sent == {i \in OnWire : wire[i].via \in {"request", "retry", "redirect"}}
Seqs == {wire[i].seq : i \in OnWire}
Of(seq) == {i \in OnWire : wire[i].seq = seq}
Replies(seq) == {i \in Of(seq) : wire[i].via \in {"response", "error"}}
CalledBack(seq) == {i \in Of(seq) : wire[i].via = "callback"}
Resent(seq) == {i \in Of(seq) : wire[i].via = "retry"}
Requested(seq) == {i \in Of(seq) : wire[i].via \in {"request", "retry"}}
RetryEvents(seq) == {i \in Idx("retry") : log[i].n = seq}
Sleeping(seq) == \E r \in net : r.seq = seq /\ r.phase = "sleeping"
LastOf(seq) == CHOOSE i \in Of(seq) : \A j \in Of(seq) : j <= i
Before(i) == CHOOSE j \in Of(wire[i].seq) :
               j < i /\ \A k \in Of(wire[i].seq) : k < i => k <= j
NoneSentAfter(i) == \A j \in Sent : j < i

\* Requests sent for the statement, the redirected ones apart; the
\* continuations are the GETs the stream asked for.
StatementRequests ==
  {i \in OnWire : wire[i].via \in {"request", "retry"} /\ wire[i].method # "DELETE"}
Continuations == {i \in StatementSends : log[i].v = "GET"}
Statements == {i \in StatementSends : log[i].v = "POST"}

\* C12 as stated: `retry` events and restarts together stay within maxRetries,
\* and the requests of a statement within 1 + maxRetries + continuations.
C12_SharedBudget ==
  /\ Count("retry") + Count("restart") <= cfg.maxRetries
  /\ Cardinality(StatementRequests)
       <= 1 + cfg.maxRetries + Cardinality(Continuations)

\* C12, amended: the budgets are separate. Every request handed to the
\* transport is re-sent at most maxRetries times, counted by its own backoff;
\* the statement is restarted at most maxRetries times, counted by the
\* backoff of the stream, which counts nothing else; so the requests of a
\* statement, redirected ones apart, stay within (1 + maxRetries) for each of
\* the statement's POSTs (one, and one per restart) and continuations.
C12_SeparateBudgets ==
  /\ \A seq \in Seqs : Cardinality(RetryEvents(seq)) <= cfg.maxRetries
  /\ \A r \in net : r.attempts <= cfg.maxRetries
  /\ Count("restart") <= cfg.maxRetries
  /\ qs.backoff = Count("restart")
  /\ Cardinality(Statements) <= 1 + Count("restart")
  /\ Cardinality(StatementRequests)
       <= (1 + cfg.maxRetries) * (Cardinality(Statements) + Cardinality(Continuations))

C12_Witness ==
  /\ cfg.maxRetries > 0
  /\ Count("restart") = cfg.maxRetries
  /\ \E seq \in Seqs : Cardinality(RetryEvents(seq)) = cfg.maxRetries
  /\ Cardinality(StatementRequests)
       > 1 + cfg.maxRetries + Cardinality(Continuations)

\* The stream failed with err: destroy(err), and 'error' once the callback of
\* _destroy has run.
StreamFailed(err) ==
  /\ qs.destroyed
  /\ cb.err = err
  /\ cb.st = "called" => \E j \in Idx("error") : log[j].v = err

\* The request answers 503 to every attempt and was called back.
AlwaysUnavailable(seq) ==
  /\ CalledBack(seq) # {}
  /\ \A i \in Replies(seq) : wire[i].via = "response" /\ wire[i].status = 503

\* C13: a request is re-sent at most maxRetries times, each retry counting as
\* one attempt of its backoff and emitting one `retry`; a request that is
\* answered 503 every time is sent maxRetries + 1 times, with maxRetries
\* `retry` events, and fails the stream with an error of statusCode 503.
C13_RetryBudget ==
  \A seq \in Seqs :
    /\ Cardinality(Resent(seq)) <= cfg.maxRetries
    /\ Cardinality(RetryEvents(seq)) =
         Cardinality(Resent(seq)) + (IF Sleeping(seq) THEN 1 ELSE 0)
    /\ \A r \in net : r.seq = seq => r.attempts = Cardinality(RetryEvents(seq))
    /\ AlwaysUnavailable(seq) =>
         /\ Cardinality(Of(seq) \cap Sent) = cfg.maxRetries + 1
         /\ Cardinality(RetryEvents(seq)) = cfg.maxRetries
         /\ \A i \in CalledBack(seq) : statusCode(wire[i].code) = 503
         /\ statusCode(cb.err) = 503
         /\ StreamFailed(herr(503))

C13_Witness ==
  /\ cfg.maxRetries > 0
  /\ cb.st = "called"
  /\ \E seq \in Seqs : AlwaysUnavailable(seq)

\* What a reply makes abort or the callback see: the code of a socket error,
\* the http error of a failure status, the `error` of a body.
ErrorOf(i) ==
  IF wire[i].via = "response" /\ wire[i].status > 399
  THEN herr(wire[i].status) ELSE wire[i].code

\* Replies that some level retries when it has budget left.
Retried(i) ==
  \/ wire[i].via = "error" /\ wire[i].code \in {"ECONNREFUSED", "ECONNRESET"}
  \/ wire[i].via = "response" /\ wire[i].status = 503
  \/ wire[i].via = "response" /\ wire[i].code \in RETRY_ERROR_CODES

\* C14: with maxRetries = 0 nothing is retried: no `retry` event, no request
\* is re-sent, the query is not restarted, and a 503, a refused or reset
\* connection or a retryable Presto error fails the stream at once.
C14_NoRetryAtZero ==
  cfg.maxRetries = 0 =>
    /\ Count("retry") = 0
    /\ Count("restart") = 0
    /\ "retry" \notin timers
    /\ \A r \in net : r.phase = "wire"
    /\ \A seq \in Seqs : Cardinality(Requested(seq)) = 1
    /\ \A i \in OnWire :
         (wire[i].via \in {"response", "error"} /\ Retried(i)) =>
           /\ i < Len(wire)
           /\ wire[i + 1].via = "callback"
           /\ wire[i + 1].code = ErrorOf(i)
           /\ NoneSentAfter(i)
           /\ StreamFailed(ErrorOf(i))

C14_Witness ==
  /\ cfg.maxRetries = 0
  /\ cb.st = "called"
  /\ \E i \in OnWire : wire[i].via = "response" /\ wire[i].code \in RETRY_ERROR_CODES

\* C15: a request is re-sent only after a 503, a refused or a reset
\* connection; a 4xx, or a 5xx other than 503, is called back as an http error
\* and fails the stream without the request being sent again.
C15_TransportRetryable ==
  /\ \A i \in OnWire :
       wire[i].via = "retry" =>
         \/ wire[Before(i)].via = "error"
              /\ wire[Before(i)].code \in {"ECONNREFUSED", "ECONNRESET"}
         \/ wire[Before(i)].via = "response" /\ wire[Before(i)].status = 503
  /\ \A i \in OnWire :
       (wire[i].via = "response" /\ wire[i].status > 399 /\ wire[i].status # 503) =>
         /\ i < Len(wire)
         /\ wire[i + 1].via = "callback"
         /\ wire[i + 1].seq = wire[i].seq
         /\ statusCode(wire[i + 1].code) = wire[i].status
         /\ NoneSentAfter(i)
         /\ Replies(wire[i].seq) = {i} => Cardinality(Of(wire[i].seq) \cap Sent) = 1
         /\ StreamFailed(herr(wire[i].status))

C15_Witness ==
  /\ cfg.maxRetries > 0
  /\ cb.st = "called"
  /\ \E i \in OnWire : wire[i].via = "response" /\ wire[i].status = 500
  /\ \E i \in OnWire : wire[i].via = "retry"

\* A 307 whose location is a URL of the scheme of the request, or of the
\* other scheme.
Redirected(i) ==
  /\ wire[i].via = "response"
  /\ wire[i].status = 307
  /\ wire[i].location.kind = "url"

SameScheme(i) == wire[i].location.protocol = wire[i].protocol

\* C16: a 307 to a location of the same scheme is followed at once by the
\* same request (method, body, headers, protocol, attempts of the backoff)
\* sent to the hostname, port (unset if the location has none) and path of the
\* location; the callback is not called, and the `retry` events of a request
\* stay as many as the attempts of its backoff.
C16_Redirect ==
  /\ \A i \in OnWire :
       (Redirected(i) /\ SameScheme(i)) =>
         /\ i < Len(wire)
         /\ wire[i + 1] = [wire[i] EXCEPT !.via = "redirect",
                                          !.status = 0,
                                          !.location = NoUri,
                                          !.hostname = wire[i].location.hostname,
                                          !.port = wire[i].location.port,
                                          !.path = wire[i].location.path]
  /\ \A seq \in Seqs :
       Cardinality(RetryEvents(seq)) =
         wire[LastOf(seq)].attempts + (IF Sleeping(seq) THEN 1 ELSE 0)

C16_Witness ==
  \E i \in OnWire :
    /\ Redirected(i) /\ SameScheme(i)
    /\ wire[i].location.port = PortUnset
    /\ wire[i].attempts > 0
    /\ wire[i].method = "GET"
    /\ CalledBack(wire[i].seq) # {}

\* C17: a 307 to a location of the other scheme is called back as the error
\* 'HTTP 307 redirect protocol switch is not allowed', which fails the
\* stream; no request is sent after it.
C17_ProtocolSwitch ==
  \A i \in OnWire :
    (Redirected(i) /\ ~SameScheme(i)) =>
      /\ i < Len(wire)
      /\ wire[i + 1].via = "callback"
      /\ wire[i + 1].seq = wire[i].seq
      /\ wire[i + 1].code = ProtocolSwitch
      /\ NoneSentAfter(i)
      /\ StreamFailed(ProtocolSwitch)

C17_Witness ==
  /\ cfg.maxRetries > 0
  /\ cb.st = "called"
  /\ \E i \in OnWire : Redirected(i) /\ ~SameScheme(i) /\ wire[i].protocol = "https:"

\* ------------------------------------------------------ properties of pages
IsPage(e) == e.e = "recv" /\ e.n > 0

\* The pages of the results called back, in order: recvRows cut at the sizes
\* of the pages.
RECURSIVE Cut(_, _)
Cut(rows, sizes) ==
  IF sizes = <<>> THEN <<>>
  ELSE <<SubSeq(rows, 1, Head(sizes).n)>>
       \o Cut(SubSeq(rows, Head(sizes).n + 1, Len(rows)), Tail(sizes))

PagesReceived == Cut(recvRows, SelectSeq(log, IsPage))

\* A page in chunks of pageSize rows and a smaller remainder, if any.
RECURSIVE Chunks(_, _)
Chunks(page, pageSize) ==
  IF Len(page) <= pageSize THEN <<page>>
  ELSE <<SubSeq(page, 1, pageSize)>>
       \o Chunks(SubSeq(page, pageSize + 1, Len(page)), pageSize)

Singles(page) == [i \in 1..Len(page) |-> <<page[i]>>]

Emitted(page) ==
  IF ~cfg.paging THEN Singles(page)
  ELSE IF cfg.pageSize <= 0 THEN <<page>>
  ELSE Chunks(page, cfg.pageSize)

RECURSIVE EmittedAll(_)
EmittedAll(pages) ==
  IF pages = <<>> THEN <<>> ELSE Emitted(Head(pages)) \o EmittedAll(Tail(pages))

IsPrefix(a, b) == Len(a) <= Len(b) /\ a = SubSeq(b, 1, Len(a))

\* C25: a page stream emits no empty page and, with a pageSize > 0, no page
\* of more than pageSize rows; what it emits is each page received, in order,
\* whole when pageSize <= 0, else in chunks of pageSize rows and a smaller
\* remainder; a row stream emits the rows one by one whatever the pageSize.
C25_PageChunks ==
  /\ \A i \in 1..Len(pushed) :
       /\ Len(pushed[i]) > 0
       /\ (cfg.paging /\ cfg.pageSize > 0) => Len(pushed[i]) <= cfg.pageSize
       /\ ~cfg.paging => Len(pushed[i]) = 1
  /\ IsPrefix(pushed, EmittedAll(PagesReceived))
  /\ qs.ended => pushed = EmittedAll(PagesReceived)

C25_Witness ==
  /\ cfg.paging
  /\ cfg.pageSize > 1
  /\ qs.ended
  /\ \E i \in 1..Len(log) :
       IsPage(log[i]) /\ log[i].n > cfg.pageSize /\ log[i].n % cfg.pageSize # 0
  /\ \E i \in 1..Len(pushed) : Len(pushed[i]) = cfg.pageSize

\* Rows of the last result that the stream holds and has not pushed.
Undelivered ==
  IF cfg.paging THEN qs.buffer
  ELSE SubSeq(qs.buffer, qs.bufferIndex + 1, Len(qs.buffer))

\* C26: while a request of the statement is in flight, or the stream waits to
\* poll or to retry, it holds no row that it has not pushed; the rows pushed
\* and those held are the rows received, so that no result that lands
\* overwrites a row.
C26_DrainedBeforeRequest ==
  /\ (InFlight # {} \/ timers # {}) => Undelivered = <<>>
  /\ ~qs.destroyed => Flatten(pushed) \o Undelivered = recvRows

C26_Witness ==
  /\ Len(Undelivered) > 0
  /\ Len(pushed) > 0
  /\ ~qs.reading
  /\ ~qs.destroyed
  /\ ~qs.upstreamFinished
  /\ net = {}

\* -------------------------------------------------- properties of documents
CarriesStats(e) == e.e = "response" /\ e.v # NoStats
IsStats(e) == e.e = "stats"
StatesOf(events) == [i \in 1..Len(events) |-> events[i].v]

\* C27: the `stats` events emitted are the stats of the responses received
\* that carry stats, one each and in that order, a response with an `error`
\* included.
C27_StatsPerResponse ==
  StatesOf(SelectSeq(log, IsStats)) = StatesOf(SelectSeq(log, CarriesStats))

\* Events of the attempt under way: those after the last restart.
ThisAttempt(e) == {i \in Idx(e) : NoneAfter("restart", i)}
First(indexes) == CHOOSE i \in indexes : \A j \in indexes : i <= j

\* _reset has just run for a restart.
Restarting ==
  /\ Count("restart")' = Count("restart") + 1
  /\ qs'.queryId = NoId
  /\ qs'.columns = NoColumns
  /\ qs'.prevPath = NoPath
  /\ qs'.buffer = <<>>
  /\ qs'.requestOptions = InitialRequest
  /\ ~qs'.received /\ ~qs'.upstreamFinished

\* C29: in one attempt `id` and `columns` are emitted at most once, and the
\* queryId and columns of the stream are those of the first response of the
\* attempt that had them; once set they change only when the query restarts,
\* which clears both with the rest of the stream's state.
C29_WriteOnce ==
  /\ [](/\ Cardinality(ThisAttempt("id")) <= 1
        /\ Cardinality(ThisAttempt("columns")) <= 1
        /\ qs.queryId # NoId =>
             /\ ThisAttempt("id") # {}
             /\ qs.queryId = log[First(ThisAttempt("recvid"))].n
             /\ qs.queryId = log[First(ThisAttempt("id"))].n
        /\ qs.columns # NoColumns =>
             /\ ThisAttempt("columns") # {}
             /\ qs.columns = log[First(ThisAttempt("columns"))].n)
  /\ [][/\ (qs.queryId # NoId /\ qs'.queryId # qs.queryId) => Restarting
        /\ (qs.columns # NoColumns /\ qs'.columns # qs.columns) => Restarting]_vars

C29_Witness ==
  /\ qs.queryId # NoId
  /\ qs.columns # NoColumns
  /\ Count("restart") > 0
  /\ \E i \in ThisAttempt("recvid") : log[i].n # qs.queryId
  /\ \E i \in ThisAttempt("response") : i > First(ThisAttempt("columns"))

\* C30: once a result without nextUri has landed (upstreamFinished), the
\* stream stays finished, no request is in flight or dispatched, and no
\* timer is set: no GET, no POST, no DELETE, whatever the consumer reads or
\* destroys.
C30_NoRequestWhenFinished ==
  /\ [](qs.upstreamFinished => (net = {} /\ timers = {}))
  /\ [][qs.upstreamFinished =>
          /\ qs'.upstreamFinished
          /\ wire' = wire
          /\ Count("send")' = Count("send")
          /\ Count("request")' = Count("request")
          /\ Count("restart")' = Count("restart")]_vars

C30_Witness ==
  /\ qs.upstreamFinished
  /\ qs.queryId # NoId
  /\ atDestroy.called
  /\ atDestroy.upstreamFinished
  /\ Len(Undelivered) > 0
  /\ cb.st = "called"

\* --------------------------------------- properties of failures after destroy
\* The request that was in flight at destroy has failed.
FailedSinceDestroy == \E i \in Idx("failure") : i > Last("destroy")

\* C28: destroyed with an error while a request is in flight and no queryId
\* is known (as with the initial request), and that request fails: no DELETE
\* is sent, no `cancel` emitted, nothing is restarted or sent, and the stream
\* emits one `error`, the one given to destroy.
C28_FailureAfterDestroy ==
  (Waiting /\ atDestroy.err = UserError /\ FailedSinceDestroy) =>
    /\ Deletes = {}
    /\ Count("cancel") = 0
    /\ NoneAfter("restart", Last("destroy"))
    /\ NoneAfter("send", Last("destroy"))
    /\ net = {} /\ timers = {}
    /\ cb.err = UserError
    /\ Count("error") <= 1
    /\ cb.st = "called" =>
         \E i \in Idx("error") : log[i] = Ev("error", UserError, 0, NoError)

C28_Witness ==
  /\ Waiting /\ atDestroy.err = UserError /\ FailedSinceDestroy
  /\ atDestroy.sends = 1
  /\ cb.st = "called"
  /\ log[Last("failure")].v = "ETIMEDOUT"

\* ------------------------------------------------ properties of the session
\* The pairs of an x-presto-session header.
RECURSIVE PairsOf(_)
PairsOf(header) ==
  IF header = <<>> THEN {}
  ELSE LET first == CHOOSE n \in 1..(Len(header) + 1) :
                      /\ n = Len(header) + 1 \/ header[n] = ","
                      /\ \A m \in 1..(n - 1) : header[m] # ","
       IN {SubSeq(header, 1, first - 1)}
            \cup (IF first > Len(header) THEN {}
                  ELSE PairsOf(SubSeq(header, first + 1, Len(header))))

\* The pairs last received for the keys received and not cleared since, in
\* the order in which these keys were first received since.
Ranked(book) ==
  [r \in 1..Cardinality(Present(book)) |->
     book[CHOOSE k \in Keys : book[k].rank = r].kv]

ExpectedHeader(book) ==
  IF Present(book) = {} THEN Absent ELSE join(Ranked(book))

\* The request last made is a POST, nothing happened since, and the client
\* has no x-presto-session header of its own.
PostMade ==
  /\ seen.request.fresh
  /\ seen.request.method = "POST"
  /\ client.headers = Absent

\* C22: a request other than a POST has no x-presto-session header; a POST
\* has the one made from the store if and only if the store is not empty,
\* and it is the comma-join, in insertion order, of the last pair received
\* for each key in the store.
C22_SessionHeader ==
  seen.request.fresh =>
    /\ seen.request.method # "POST" => seen.request.header = Absent
    /\ PostMade => seen.request.header = ExpectedHeader(seen.book)
    /\ PostMade => (seen.request.header = Absent <=> client._session = <<>>)

\* A POST made with two keys in the store, in the order in which they were
\* received, after a statement was done.
C22_Witness ==
  /\ PostMade
  /\ seen.request.header = B1 \o <<",">> \o A2
  /\ \E i \in 1..Len(statements) : statements[i].phase = "done"

\* C23: a response that is redirected, retried, has an unexpected status or
\* content type, does not parse or carries a Presto error leaves the session
\* store as it is, whatever session headers it has; so does the response to
\* a DELETE.
C23_StoreFrame ==
  \A i \in 1..Len(statements) :
    statements[i].phase \in {"flying", "canceling"} =>
      \A res \in RepliesTo(statements[i]) :
        Fate(statements[i], res) # "result" =>
          sessionAfter(client._session, statements[i], res) = client._session

\* A request was sent again after a 503 that had session headers, and the
\* store is as it was: the key of the x-presto-set-session header is not in
\* it, the key of the x-presto-clear-session header is.
C23_Witness ==
  /\ \E i \in 1..Len(statements) :
       statements[i].phase = "flying" /\ statements[i].attempts = 1
  /\ Map_has(client._session, KeyA)
  /\ ~Map_has(client._session, KeyB)

\* C21 as stated: the POST made next after set(k, v) reported success has
\* the pair k=<serialized v>, and no POST made after reset(k) reported success
\* has a pair for k.
C21_RoundTrip ==
  PostMade =>
    \A k \in Keys :
      /\ (seen.reported[k].what = "set" /\ seen.reported[k].next) =>
           (k \o <<"=">> \o seen.reported[k].value) \in PairsOf(seen.request.header)
      /\ seen.reported[k].what = "reset" =>
           \A kv \in PairsOf(seen.request.header) : split0(kv) # k

\* C21: after set(k, v) reported success and until a RESET SESSION result
\* clears k, a POST made by a client without an x-presto-session header of
\* its own has the pair last received for k in an x-presto-set-session
\* header; after reset(k) reported success and until a SET SESSION result
\* has a pair for k, such a POST has no pair for k.
C21_ReceivedPair ==
  PostMade =>
    \A k \in Keys :
      /\ seen.reported[k].what = "set" =>
           /\ seen.book[k].kv # Absent
           /\ split0(seen.book[k].kv) = k
           /\ seen.book[k].kv \in PairsOf(seen.request.header)
      /\ seen.reported[k].what = "reset" =>
           \A kv \in PairsOf(seen.request.header) : split0(kv) # k

\* The POST made next after set() reported success has the pair as the
\* coordinator printed it, beside a pair of another key.
C21_Witness ==
  /\ PostMade
  /\ seen.reported[KeyA].what = "set" /\ seen.reported[KeyA].next
  /\ seen.request.header = B1 \o <<",">> \o A1

\* C24: a POST has the pair of a SET SESSION statement only if the callback
\* of that statement was called before the POST was made.
C24_AfterCallback ==
  PostMade =>
    \A k \in Present(seen.book) :
      seen.book[k].kv \in PairsOf(seen.request.header) => seen.book[k].by = 0

\* ------------------------------------------------- properties of polling
\* The statement request sent last, and the GETs sent in a step.
LastStatementSend == CHOOSE i \in StatementSends : \A j \in StatementSends : j <= i
NewGets == {i \in StatementSends' \ StatementSends : log'[i].v = "GET"}

\* A result with a nextUri was the last thing to happen to the statement,
\* and the stream has pushed all its rows and asked for more.
Answering ==
  /\ ~qs.destroyed
  /\ qs.reading
  /\ lastUri.kind = "url"
  /\ \E i \in Idx("recv") :
       log[i].v = "result" /\ LastStatementSend < i /\ NoneAfter("recv", i)

C33_Step ==
  /\ \A i \in NewGets :
       /\ log'[i].n = lastUri'.path
       /\ ("poll" \in timers) <=> (log'[i].n = log[LastStatementSend].n)
  /\ ("poll" \in timers' \ timers) =>
       lastUri'.kind = "url" /\ lastUri'.path = log'[LastStatementSend'].n
  /\ Answering' =>
       "poll" \in timers' /\ lastUri'.path = log'[LastStatementSend'].n
  /\ ("poll" \in timers /\ ~qs.destroyed /\ qs'.destroyed) =>
       timers' = {} /\ StatementSends' = StatementSends
  /\ (qs.destroyed /\ "poll" \in atDestroy.timers) =>
       timers' = {} /\ StatementSends' = StatementSends

\* C33: a GET is sent to the path of the nextUri; it is sent after a wait of
\* pollInterval if and only if that path is the path of the request the
\* nextUri came with, else in the step that drains the rows of that result.
\* When the stream is destroyed during the wait, the timer is cleared and no
\* statement request is sent any more.
C33_PollOrAdvance == [][C33_Step]_vars

C33_Witness ==
  /\ \E i \in StatementSends :
       \E j \in StatementSends :
         j < i /\ log[i].v = "GET" /\ log[j].n = log[i].n
  /\ atDestroy.called
  /\ "poll" \in atDestroy.timers
  /\ cb.st = "called"

\* ------------------------------------- properties of responses after destroy
\* A step in which the transport calls back for a statement request of a
\* stream that was destroyed.
LateLanding == qs.destroyed /\ \E r \in net \ net' : r.opts.method # "DELETE"

\* What the consumer sees of a result.
Deliveries ==
  {"data", "end", "id", "info", "columns", "stats", "state_change", "raw_page_size"}

C37_Step ==
  LateLanding =>
    /\ pushed' = pushed
    /\ qs'.buffer = qs.buffer
    /\ timers' = timers
    /\ StatementSends' = StatementSends
    /\ \A i \in (Len(log) + 1)..Len(log') :
         /\ log'[i].e \notin Deliveries \cup {"restart"}
         /\ log'[i].e \in {"request", "send"} => log'[i].v = "DELETE"

\* C37: when the transport calls back for a statement request of a stream
\* that was destroyed, nothing is pushed or buffered, none of `id`, `columns`,
\* `stats`, `state_change` is emitted, no timer is set and no statement
\* request is sent; at most the DELETE of the query is.
C37_NothingDelivered == [][C37_Step]_vars

C37_Witness ==
  /\ \E i \in Idx("late") : log[i].v # NoStats /\ log[i].n > 0
  /\ cb.st = "called"

\* ------------------------------------------------- properties of restarts
\* The outcomes the stream was called back with that were retryable Presto
\* errors, and whether every POST made so far had such an outcome.
Transients == {i \in Idx("recv") : log[i].v = "transient"}
AlwaysTransient ==
  /\ Statements # {}
  /\ Cardinality(Transients) = Cardinality(Statements)
  /\ Idx("recv") = Transients

\* C38: the stream is restarted at most maxRetries times, counted by its
\* backoff, which _reset leaves alone; when every POST is answered with a
\* retryable Presto error, maxRetries + 1 POSTs are made, and the error of the
\* last one fails the stream.
C38_RestartBudget ==
  /\ Count("restart") <= cfg.maxRetries
  /\ qs.backoff = Count("restart")
  /\ Cardinality(Statements) <= cfg.maxRetries + 1
  /\ AlwaysTransient =>
       IF Cardinality(Statements) = cfg.maxRetries + 1
       THEN /\ StreamFailed(log[Last("recv")].x)
            /\ NoneAfter("send", Last("recv"))
            /\ timers = {}
       ELSE /\ Count("restart") = Cardinality(Statements)
            /\ atDestroy.called \/ "retry" \in timers

C38_Witness ==
  /\ cfg.maxRetries > 0
  /\ AlwaysTransient
  /\ Cardinality(Statements) = cfg.maxRetries + 1
  /\ cb.st = "called"

\* The stream was destroyed while it waited to restart the statement.
RetryInterrupted == atDestroy.called /\ "retry" \in atDestroy.timers

\* C39: destroyed during the wait before a restart, the stream clears the
\* timer, sends neither the POST of the restart nor a DELETE (the id of the
\* failed attempt is gone since _reset), and closes on the next tick.
C39_DestroyDuringRestart ==
  RetryInterrupted =>
    /\ timers = {}
    /\ net = {}
    /\ NoneAfter("send", Last("destroy"))
    /\ NoneAfter("request", Last("destroy"))
    /\ Deletes = {}
    /\ Count("cancel") = 0
    /\ atDestroy.queryId = NoId
    /\ atDestroy.case = "close"
    /\ cb.st \in {"tick", "called"}
    /\ cb.st = "called" => Count("close") = 1

C39_Witness ==
  /\ RetryInterrupted
  /\ \E i \in Idx("id") : i < Last("restart")
  /\ cb.st = "called"
  /\ Count("close") = 1

\* -------------------------------- properties of errors leaving the transport
\* Statement requests the transport called back with an error that is not a
\* retryable Presto error.
Escaped ==
  {i \in OnWire :
     /\ wire[i].via = "callback"
     /\ wire[i].method # "DELETE"
     /\ wire[i].code \notin RETRY_ERROR_CODES \cup {NoError}}

\* C35: the stream restarts the statement only when it is called back with a
\* retryable Presto error; any other error the transport calls back with (a
\* 503 or a reset connection with no attempts left, a timeout, a failure
\* status, a bad redirect, another Presto error) fails the stream, and no
\* request follows it.
C35_EscapedErrors ==
  /\ \A i \in Idx("restart") :
       i > 1 /\ log[i - 1].e = "recv" /\ log[i - 1].x \in RETRY_ERROR_CODES
  /\ \A i \in Escaped :
       /\ StreamFailed(wire[i].code)
       /\ NoneSentAfter(i)
       /\ timers = {}
       /\ \A j \in Idx("restart") : \E k \in Idx("recv") : j < k /\ log[k].x = wire[i].code

C35_Witness ==
  /\ cfg.maxRetries > 0
  /\ qs.backoff < cfg.maxRetries
  /\ cb.st = "called"
  /\ \E i \in Escaped :
       /\ statusCode(wire[i].code) = 503
       /\ Cardinality(RetryEvents(wire[i].seq)) = cfg.maxRetries

\* ------------------------------- properties of destroy and the transport
\* Requests the transport has not called back for: those awaiting a response
\* and those of the statement protocol (POST, GET).
OnTheWire == {r \in net : r.phase = "wire"}
Outstanding == {r \in net : r.opts.method # "DELETE"}

\* C31 as stated: at most one HTTP request of the statement awaits its
\* response, the DELETE of a cancelation included.
C31_OneInFlight == Cardinality(OnTheWire) <= 1

\* C31, amended: at most one statement request (POST or GET) is outstanding,
\* and none while the stream waits to poll or to restart; pulls in the
\* meantime dispatch nothing. The DELETE of a cancelation does not wait for
\* the statement request that is outstanding, so that two requests can await
\* their responses, only after destroy and one of them the DELETE.
C31_OneStatementRequest ==
  /\ Cardinality(Outstanding) <= 1
  /\ Cardinality(net \ Outstanding) <= 1
  /\ Cardinality(timers) <= 1
  /\ timers # {} => Outstanding = {}
  /\ Cardinality(net) > 1 => qs.destroyed

C31_Witness ==
  /\ Cardinality(OnTheWire) = 2
  /\ \E r \in OnTheWire : r.opts.method = "GET"
  /\ \E r \in OnTheWire : r.opts.method = "DELETE"

\* Statement requests put on the wire in a step: by request(), or again by
\* the transport after its backoff.
NewDispatches ==
  {i \in (Len(wire) + 1)..Len(wire') :
     /\ wire'[i].via \in {"request", "retry", "redirect"}
     /\ wire'[i].method # "DELETE"}

\* The consumer destroys the stream in this step, between two handlers.
UserDestroy ==
  /\ ~qs.destroyed /\ qs'.destroyed
  /\ atDestroy'.err = NoError
  /\ pushed' = pushed

C32_AbortStep ==
  /\ UserDestroy => timers' = {} /\ Outstanding' = {}
  /\ qs.destroyed => NewDispatches = {}

\* C32 as stated: destroy clears every timer and aborts the request in
\* flight, and once the stream is destroyed only the DELETE is put on the
\* wire.
C32_Cancellable == [][C32_AbortStep]_vars

C32_ClearStep ==
  /\ (UserDestroy /\ timers # {}) =>
       /\ timers' = {}
       /\ NewDispatches = {}
       /\ StatementSends' = StatementSends
  /\ (qs.destroyed /\ atDestroy.timers # {}) =>
       /\ timers' = {}
       /\ NewDispatches = {}
       /\ StatementSends' = StatementSends
  /\ UserDestroy => Outstanding \subseteq Outstanding'
  /\ \A r \in Outstanding :
       (qs.destroyed /\ r.phase = "sleeping") =>
         \/ r \in Outstanding'
         \/ \E i \in NewDispatches : wire'[i].via = "retry" /\ wire'[i].seq = r.seq

\* C32, amended: destroy clears the two timers of the stream, so that a
\* stream destroyed while it waits to poll or to restart sends no statement
\* request any more. It leaves the request that is outstanding to the
\* transport: the request is not aborted, and when it sleeps before a retry it
\* is put on the wire again after the stream was destroyed.
C32_TimersCleared == [][C32_ClearStep]_vars

C32_Witness ==
  /\ atDestroy.called
  /\ atDestroy.err = NoError
  /\ \E i \in Idx("retry") :
       /\ i > Last("destroy")
       /\ log[i].v = "POST"
       /\ \E r \in Outstanding : r.seq = log[i].n /\ r.phase = "wire"

\* ------------------------------------------- properties of one attempt
\* The attempts of a request that can still call back, and the `retry`
\* events of a request up to position i of the log.
Alive(seq) == {r \in net : r.seq = seq /\ ~called(r)}
RetriesBefore(seq, i) == {j \in RetryEvents(seq) : j < i}

\* C34 as stated: a socket timeout after the headers is retried while the
\* request has attempts left, with a `retry` event, and is called back with
\* ETIMEDOUT when it has none.
C34_TimeoutRetried ==
  \A i \in Idx("timeout") :
    log[i].v = "body" =>
      IF Cardinality(RetriesBefore(log[i].n, i)) < cfg.maxRetries
      THEN /\ i + 1 \in RetryEvents(log[i].n)
           /\ CalledBack(log[i].n) = {}
      ELSE \A c \in CalledBack(log[i].n) : wire[c].code = "ETIMEDOUT"

\* C34, amended: a socket timeout, before or after the headers, is not
\* retried: whatever attempts are left, the request is called back with
\* ETIMEDOUT at once, without a `retry` event and without being sent again,
\* and the stream fails with that error.
C34_TimeoutFatal ==
  \A i \in Idx("timeout") :
    /\ Cardinality(CalledBack(log[i].n)) = 1
    /\ \A c \in CalledBack(log[i].n) : wire[c].code = "ETIMEDOUT"
    /\ RetryEvents(log[i].n) = RetriesBefore(log[i].n, i)
    /\ Alive(log[i].n) = {}
    /\ NoneAfter("send", i)
    /\ StreamFailed("ETIMEDOUT")

C34_Witness ==
  /\ cfg.maxRetries > 0
  /\ cb.st = "called"
  /\ \E i \in Idx("timeout") : log[i].v = "body" /\ RetryEvents(log[i].n) = {}

\* C36: the callback given to request() is called at most once; a request
\* has one attempt at a time that can call back, and none once it has called
\* back, whatever its superseded attempts signal.
C36_CalledBackOnce ==
  \A seq \in Seqs :
    /\ Cardinality(CalledBack(seq)) <= 1
    /\ Cardinality(Alive(seq)) <= 1
    /\ CalledBack(seq) # {} => Alive(seq) = {}
    /\ Cardinality(RetryEvents(seq)) =
         Cardinality(Resent(seq)) + (IF Sleeping(seq) THEN 1 ELSE 0)

C36_Witness ==
  \E i \in OnWire :
    /\ wire[i].via = "late"
    /\ i > 1 /\ wire[i - 1].seq = wire[i].seq /\ wire[i - 1].status = 503
    /\ \E j \in Resent(wire[i].seq) : j > i
    /\ CalledBack(wire[i].seq) # {}

\* ------------------------------------- properties of destroyed streams
\* C40: the session store has the pairs of the results received, in the
\* order in which their keys were first received, whether the stream that
\* made the request was destroyed by then or not; a pair received for a
\* destroyed stream is in the store until a result clears or replaces it,
\* and a POST made meanwhile by a client without an x-presto-session header
\* of its own has it.
C40_StoreDespiteDestroy ==
  /\ Map_values(client._session) = Ranked(seen.book)
  /\ \A k \in Keys :
       seen.book[k].by < 0 =>
         /\ \E n \in 1..Len(client._session) :
              client._session[n] = [key |-> k, value |-> seen.book[k].kv]
         /\ PostMade => seen.book[k].kv \in PairsOf(seen.request.header)

\* A statement made its POST with the pair that the response to a destroyed
\* stream brought, after another statement was done.
C40_Witness ==
  /\ PostMade
  /\ seen.book[KeyB].by < 0
  /\ B1 \in PairsOf(seen.request.header)
  /\ \E i \in 1..Len(statements) : statements[i].phase = "done"

====
